---- MODULE Spec2Model ----
(***************************************************************************)
(* Model of the Twilio media-stream voice pipeline of Node_VAD_Twilio:     *)
(* the voice-activity detector (src/utils/vadDetector.js and its earlier   *)
(* version src/unnamed/part_000), the utterance assembler                  *)
(* (src/services/audioProcessor.js, both AudioProcessor classes) and the   *)
(* WebSocket message handler with the session table (src/app.js).          *)
(*                                                                         *)
(* Numbers.  JavaScript numbers are doubles.  The noise estimates and the  *)
(* adaptive threshold are kept in thousandths (fixed point, rounded down); *)
(* rms, peak and spectral centroid are whole numbers; the zero-crossing    *)
(* rate is in thousandths and the spectral balance in hundredths.  The     *)
(* scorer's confidence is a pair <<h, d>>: h hundredths and d the number   *)
(* of units in the last place by which the double differs from the double  *)
(* nearest to h/100, so that the comparisons with 0.7 and 0.8 come out as  *)
(* they do in IEEE-754 arithmetic.                                         *)
(*                                                                         *)
(* Frames.  A frame is represented by what the code computes from its      *)
(* samples: its decoded length and its features.                           *)
(***************************************************************************)
EXTENDS Integers, Sequences, FiniteSets, TLC

Max(a, b) == IF a >= b THEN a ELSE b
Min(a, b) == IF a <= b THEN a ELSE b

\* A whole number as a fixed-point value in thousandths.
Fix(x) == x * 1000

(***************************************************************************)
(* Frame kinds: the decoded PCM length in bytes, the features that         *)
(* extractEnhancedFeatures / extractFeatures / calculateEnhancedRMS        *)
(* compute from the samples of the frame, and what the frame contributes   *)
(* to the sums of hasVoiceInWav once it is part of an utterance: wavsq the *)
(* mean square of its noise-reduced samples in units of 10^4, peaks and    *)
(* signif the number of its samples above 1200 and above 500, cplx the sum *)
(* of its samples' variations.  "hum" is a steady tone of amplitude 1000:  *)
(* loud enough for the detector, with no sample above 1200.  "missing" is  *)
(* the call without a frame (null or undefined).                           *)
(***************************************************************************)
FrameKinds ==
  { [name |-> "silence", bytes |-> 320, rms |-> 0,    zcr |-> 0,   sc |-> 0,
     bal |-> 0,  peak |-> 0,    energy |-> 0,
     wavsq |-> 0,   peaks |-> 0,   signif |-> 0,   cplx |-> 0],
    [name |-> "noise",   bytes |-> 320, rms |-> 200,  zcr |-> 400, sc |-> 2000,
     bal |-> 37, peak |-> 300,  energy |-> 200,
     wavsq |-> 4,   peaks |-> 0,   signif |-> 0,   cplx |-> 3200],
    [name |-> "soft",    bytes |-> 320, rms |-> 250,  zcr |-> 80,  sc |-> 1000,
     bal |-> 20, peak |-> 240,  energy |-> 250,
     wavsq |-> 6,   peaks |-> 0,   signif |-> 0,   cplx |-> 1600],
    [name |-> "speech",  bytes |-> 320, rms |-> 3000, zcr |-> 80,  sc |-> 1000,
     bal |-> 50, peak |-> 5000, energy |-> 3000,
     wavsq |-> 900, peaks |-> 100, signif |-> 130, cplx |-> 16000],
    [name |-> "short",   bytes |-> 160, rms |-> 3000, zcr |-> 80,  sc |-> 1000,
     bal |-> 50, peak |-> 5000, energy |-> 3000,
     wavsq |-> 900, peaks |-> 50,  signif |-> 65,  cplx |-> 8000],
    [name |-> "missing", bytes |-> 0,   rms |-> 0,    zcr |-> 0,   sc |-> 0,
     bal |-> 0,  peak |-> 0,    energy |-> 0,
     wavsq |-> 0,   peaks |-> 0,   signif |-> 0,   cplx |-> 0],
    [name |-> "hum",     bytes |-> 320, rms |-> 700,  zcr |-> 80,  sc |-> 1000,
     bal |-> 50, peak |-> 1000, energy |-> 700,
     wavsq |-> 48,  peaks |-> 0,   signif |-> 107, cplx |-> 3200] }

FrameNamed(n) == CHOOSE f \in FrameKinds : f.name = n

(***************************************************************************)
(* VADDetector, src/utils/vadDetector.js                                   *)
(***************************************************************************)
frameSize == 320
smoothingWindow == 4
minEnergy == 250
maxEnergy == 25000
hangoverTime == 5
maxRecentEnergies == 10
InitialThreshold == 600
InitialNoise == 80

\* constructor
NewVAD ==
  [ threshold             |-> InitialThreshold,
    adaptiveThreshold     |-> Fix(InitialThreshold),
    backgroundNoise       |-> Fix(InitialNoise),
    longTermNoise         |-> Fix(InitialNoise),
    noiseUpdateCounter    |-> 0,
    recentEnergies        |-> << >>,
    recentVoices          |-> << >>,
    consecutiveVoiced     |-> 0,
    consecutiveSilence    |-> 0,
    hangoverCounter       |-> 0,
    voiceConfidence       |-> <<0, 0>>,
    voiceActivityStrength |-> 0,
    spectralBalance       |-> 0,
    lastRms               |-> 0 ]

\* The energy variance of extractEnhancedFeatures: the population variance of
\* recentEnergies as the fraction num / den (0 until more than 3 values exist).
EnergyVariance(es) ==
  LET n == Len(es)
      RECURSIVE Sum(_), SumSq(_)
      Sum(i)   == IF i = 0 THEN 0 ELSE es[i] + Sum(i - 1)
      SumSq(i) == IF i = 0 THEN 0 ELSE es[i] * es[i] + SumSq(i - 1)
  IN  IF n > 3 THEN [num |-> n * SumSq(n) - Sum(n) * Sum(n), den |-> n * n]
               ELSE [num |-> 0, den |-> 1]

extractEnhancedFeatures(v, frame) ==
  [ rms |-> frame.rms, zcr |-> frame.zcr, spectralCentroid |-> frame.sc,
    peakLevel |-> frame.peak, spectralBalance |-> frame.bal,
    energyVariance |-> EnergyVariance(v.recentEnergies) ]

\* Faulty variant of ClampThreshold: the lower bound Math.max(.., threshold * 0.5) is lost.
ClampThreshold_NoFloor(ltn, threshold) ==
  Min(ltn * 4, threshold * 2000)

\* The bounds of the adaptive threshold: Math.min(Math.max(ltn * 4, threshold * 0.5),
\* threshold * 2), in thousandths.
ClampThreshold(ltn, threshold) ==
  Min(Max(ltn * 4, threshold * 500), threshold * 2000)

\* Faulty variant of BlendDue: the long-term estimate is blended every 10 updates.
BlendDue_Every10(cnt) == cnt % 10 = 0

\* this.noiseUpdateCounter % 50 === 0
BlendDue(cnt) == cnt % 50 = 0

\* The frame takes the early return of updateAdaptiveThreshold: it is not quiet and
\* its rms is above twice the adaptive threshold.
LoudFrame(v, currentRms) ==
  /\ ~(Fix(currentRms) * 10 < v.adaptiveThreshold * 4)
  /\ Fix(currentRms) > v.adaptiveThreshold * 2

\* Faulty variant of updateAdaptiveThreshold: a very loud frame is counted like any
\* other frame that is not quiet.
updateAdaptiveThreshold_CountsLoud(v, currentRms) ==
  LET quiet == Fix(currentRms) * 10 < v.adaptiveThreshold * 4
      bn    == IF quiet
                 THEN (v.backgroundNoise * 99 + Fix(currentRms)) \div 100
                 ELSE v.backgroundNoise
      cnt   == v.noiseUpdateCounter + 1
      ltn   == IF BlendDue(cnt)
                 THEN (v.longTermNoise * 9 + bn) \div 10
                 ELSE v.longTermNoise
  IN  [v EXCEPT !.backgroundNoise = bn,
                !.noiseUpdateCounter = cnt,
                !.longTermNoise = ltn,
                !.adaptiveThreshold = ClampThreshold(ltn, v.threshold)]

updateAdaptiveThreshold(v, currentRms) ==
  LET quiet == Fix(currentRms) * 10 < v.adaptiveThreshold * 4
      loud  == Fix(currentRms) > v.adaptiveThreshold * 2
      bn    == IF quiet
                 THEN (v.backgroundNoise * 99 + Fix(currentRms)) \div 100
                 ELSE v.backgroundNoise
      cnt   == v.noiseUpdateCounter + 1
      ltn   == IF BlendDue(cnt)
                 THEN (v.longTermNoise * 9 + bn) \div 10
                 ELSE v.longTermNoise
  IN  IF ~quiet /\ loud
        THEN v
        ELSE [v EXCEPT !.backgroundNoise = bn,
                       !.noiseUpdateCounter = cnt,
                       !.longTermNoise = ltn,
                       !.adaptiveThreshold = ClampThreshold(ltn, v.threshold)]

updateEnergyHistory(v, rms) ==
  LET pushed == Append(v.recentEnergies, rms)
  IN  [v EXCEPT !.recentEnergies =
         IF Len(pushed) > maxRecentEnergies THEN Tail(pushed) ELSE pushed]

\* IEEE-754 double addition on the sums that advancedVoiceDetection forms:
\* FlErr[<<h, d, k>>] is the deviation (in units in the last place) of the double
\* (h/100 + d ulp) + k/100 from the double nearest to (h + k)/100.
FlErr ==
   <<0, 0, 5>> :> 0 @@ <<0, 0, 10>> :> 0 @@ <<0, 0, 15>> :> 0 @@ <<0, 0, 20>> :> 0 @@
   <<0, 0, 30>> :> 0 @@ <<5, 0, 5>> :> 0 @@ <<10, 0, 5>> :> 1 @@ <<10, 0, 15>> :> 0 @@
   <<10, 0, 20>> :> 1 @@ <<15, 0, 5>> :> 0 @@ <<15, 0, 10>> :> 0 @@ <<15, 0, 15>> :> 0 @@
   <<15, 1, 5>> :> 0 @@ <<20, 0, 5>> :> 0 @@ <<20, 0, 10>> :> 1 @@ <<20, 0, 15>> :> 0 @@
   <<25, 0, 5>> :> 0 @@ <<25, 0, 10>> :> 0 @@ <<25, 0, 15>> :> 0 @@ <<30, 0, 5>> :> 0 @@
   <<30, 0, 15>> :> -1 @@ <<30, 0, 20>> :> 0 @@ <<30, 1, 5>> :> 1 @@ <<30, 1, 10>> :> 0 @@
   <<30, 1, 15>> :> 1 @@ <<35, 0, 5>> :> -1 @@ <<35, 0, 10>> :> -1 @@ <<35, 0, 15>> :> 0 @@
   <<35, 1, 5>> :> 0 @@ <<40, -1, 5>> :> -1 @@ <<40, 0, 5>> :> 0 @@ <<40, 0, 15>> :> 0 @@
   <<45, -1, 5>> :> -1 @@ <<45, -1, 10>> :> -1 @@ <<45, -1, 15>> :> 0 @@ <<45, 0, 5>> :> 0 @@
   <<45, 1, 5>> :> 1 @@ <<45, 1, 10>> :> 0 @@ <<45, 1, 15>> :> 1 @@ <<50, -1, 5>> :> -1 @@
   <<50, 0, 5>> :> 0 @@ <<50, 0, 10>> :> 0 @@ <<50, 0, 15>> :> 0 @@ <<50, 1, 5>> :> 1 @@
   <<55, -1, 5>> :> 0 @@ <<55, -1, 15>> :> 0 @@ <<55, 0, 5>> :> 1 @@ <<55, 0, 10>> :> 0 @@
   <<55, 0, 15>> :> 1 @@ <<55, 1, 5>> :> 2 @@ <<60, 0, 5>> :> 0 @@ <<60, 0, 15>> :> 0 @@
   <<60, 1, 5>> :> 1 @@ <<65, 0, 5>> :> 1 @@ <<65, 0, 10>> :> 0 @@ <<65, 0, 15>> :> 0 @@
   <<65, 1, 5>> :> 2 @@ <<70, 0, 5>> :> 0 @@ <<70, 1, 5>> :> 1 @@ <<70, 2, 5>> :> 2 @@
   <<75, 0, 5>> :> 0 @@ <<75, 0, 10>> :> 0 @@ <<75, 0, 15>> :> 0 @@ <<75, 1, 5>> :> 1 @@
   <<80, 0, 5>> :> 1 @@ <<80, 1, 5>> :> 2 @@ <<85, 0, 5>> :> 0 @@ <<85, 0, 15>> :> 0 @@
   <<85, 1, 5>> :> 1 @@ <<90, 0, 5>> :> 1 @@ <<90, 1, 5>> :> 2 @@ <<95, 1, 5>> :> 0 @@
   <<100, 0, 5>> :> 0 @@ <<105, 0, 5>> :> 0 @@ <<110, 0, 5>> :> 1

\* confidence += k/100
FlAdd(c, k) == <<c[1] + k, FlErr[<<c[1], c[2], k>>]>>

\* c > h/100, for a confidence c and a literal h/100
FlGreater(c, h) == c[1] > h \/ (c[1] = h /\ c[2] > 0)

\* The checks of advancedVoiceDetection in the order of the code, each passed check
\* with its score credit and its confidence credit (hundredths).
ScorerCredits(v, f) ==
  LET energy ==
        IF Fix(f.rms) > v.adaptiveThreshold THEN << <<4, 30>> >>
        ELSE IF Fix(f.rms) * 10 > v.adaptiveThreshold * 7 THEN << <<2, 10>> >>
        ELSE << >>
      zcr ==
        IF f.zcr > 10 /\ f.zcr < 350
          THEN << <<3, 20>> >> \o
               (IF f.zcr > 30 /\ f.zcr < 150 THEN << <<1, 10>> >> ELSE << >>)
          ELSE << >>
      centroid ==
        IF f.spectralCentroid > 150 /\ f.spectralCentroid < 3500
          THEN << <<2, 15>> >> \o
               (IF f.spectralCentroid > 400 /\ f.spectralCentroid < 2000
                  THEN << <<1, 10>> >> ELSE << >>)
          ELSE << >>
      balance ==
        IF f.spectralBalance > 30 /\ f.spectralBalance < 80
          THEN << <<2, 15>> >> ELSE << >>
      peak ==
        IF f.peakLevel > minEnergy /\ f.peakLevel < maxEnergy
          THEN << <<1, 5>> >> ELSE << >>
      variance ==
        IF f.energyVariance.num > 100 * f.energyVariance.den
           /\ f.energyVariance.num < 10000 * f.energyVariance.den
          THEN << <<1, 5>> >> ELSE << >>
      sustained ==
        IF Fix(f.rms) > v.backgroundNoise * 3 THEN << <<1, 5>> >> ELSE << >>
  IN  energy \o zcr \o centroid \o balance \o peak \o variance \o sustained

RECURSIVE SumScore(_)
SumScore(cs) == IF cs = << >> THEN 0 ELSE cs[1][1] + SumScore(Tail(cs))

RECURSIVE SumConfidence(_, _)
SumConfidence(acc, cs) ==
  IF cs = << >> THEN acc ELSE SumConfidence(FlAdd(acc, cs[1][2]), Tail(cs))

\* Faulty variant of RequiredScore: 6 whatever the confidence.
RequiredScore_Always6(conf) == 6

\* Faulty variant of RequiredScore: the lower requirement applies from a confidence
\* above 0.5.
RequiredScore_From05(conf) == IF FlGreater(conf, 50) THEN 6 ELSE 8

\* requiredScore = voiceConfidence > 0.7 ? 6 : 8
RequiredScore(conf) == IF FlGreater(conf, 70) THEN 6 ELSE 8

\* Returns the detector with voiceConfidence, spectralBalance and
\* voiceActivityStrength set, and the raw decision.
advancedVoiceDetection(v, f) ==
  LET cs         == ScorerCredits(v, f)
      voiceScore == SumScore(cs)
      confidence == SumConfidence(<<0, 0>>, cs)
      capped     == IF FlGreater(confidence, 100) THEN <<100, 0>> ELSE confidence
  IN  [ vad |-> [v EXCEPT !.voiceConfidence = capped,
                          !.spectralBalance = f.spectralBalance,
                          !.voiceActivityStrength = voiceScore],
        voiced |-> voiceScore >= RequiredScore(capped) ]

\* Faulty variant of HangoverStart: the bonus for a confident frame is always given.
HangoverStart_AlwaysBonus(conf) == hangoverTime + 2

\* hangoverCounter = hangoverTime + (voiceConfidence > 0.8 ? 2 : 0)
HangoverStart(conf) == hangoverTime + (IF FlGreater(conf, 80) THEN 2 ELSE 0)

\* Faulty variant of SmoothingThreshold: the hangover does not lower the threshold.
SmoothingThreshold_NoHangover(v) ==
  IF v.consecutiveVoiced = 0 /\ v.consecutiveSilence > 10 THEN 7
  ELSE IF v.consecutiveVoiced >= 3 THEN 3
  ELSE 5

\* The decision threshold of the weighted vote, in tenths, from the counters as
\* they are after the update for the current frame.
SmoothingThreshold(v) ==
  IF v.hangoverCounter > 0 THEN 2
  ELSE IF v.consecutiveVoiced = 0 /\ v.consecutiveSilence > 10 THEN 7
  ELSE IF v.consecutiveVoiced >= 3 THEN 3
  ELSE 5

\* Faulty variant of PushRecent: a full ring drops the new entry instead of the oldest.
PushRecent_DropsNewest(ring, entry, cap) ==
  IF Len(ring) >= cap THEN ring ELSE Append(ring, entry)

\* recentVoices.push(entry); if (length > maxRecent) shift()
PushRecent(ring, entry, cap) ==
  LET pushed == Append(ring, entry)
  IN  IF Len(pushed) > cap THEN Tail(pushed) ELSE pushed

\* weight = Math.max(0.1, entry.confidence), in hundredths
VoteWeight(entry) == Max(10, entry.confidence[1])

RECURSIVE TotalWeight(_)
TotalWeight(ring) ==
  IF ring = << >> THEN 0 ELSE VoteWeight(ring[1]) + TotalWeight(Tail(ring))

RECURSIVE VoicedWeight(_)
VoicedWeight(ring) ==
  IF ring = << >> THEN 0
  ELSE (IF ring[1].voiced THEN VoteWeight(ring[1]) ELSE 0) + VoicedWeight(Tail(ring))

\* Faulty variant of HangoverStep: the hangover counter runs but no longer overrides the
\* decision (isVoiced = true is lost).
HangoverStep_NoOverride(v, isVoiced) ==
  IF isVoiced
    THEN [ vad |-> [v EXCEPT !.consecutiveVoiced = @ + 1,
                             !.consecutiveSilence = 0,
                             !.hangoverCounter = HangoverStart(v.voiceConfidence)],
           voiced |-> TRUE ]
    ELSE [ vad |-> [v EXCEPT !.consecutiveVoiced = 0,
                             !.consecutiveSilence = @ + 1,
                             !.hangoverCounter = IF @ > 0 THEN @ - 1 ELSE @],
           voiced |-> FALSE ]

\* The counters after one raw decision (the first part of enhancedTemporalSmoothing)
\* and the decision after the hangover override.
HangoverStep(v, isVoiced) ==
  IF isVoiced
    THEN [ vad |-> [v EXCEPT !.consecutiveVoiced = @ + 1,
                             !.consecutiveSilence = 0,
                             !.hangoverCounter = HangoverStart(v.voiceConfidence)],
           voiced |-> TRUE ]
    ELSE [ vad |-> [v EXCEPT !.consecutiveVoiced = 0,
                             !.consecutiveSilence = @ + 1,
                             !.hangoverCounter = IF @ > 0 THEN @ - 1 ELSE @],
           voiced |-> v.hangoverCounter > 0 ]

enhancedTemporalSmoothing(v, isVoiced) ==
  LET h     == HangoverStep(v, isVoiced)
      ring  == PushRecent(h.vad.recentVoices,
                          [voiced |-> h.voiced,
                           confidence |-> h.vad.voiceConfidence,
                           strength |-> h.vad.voiceActivityStrength],
                          smoothingWindow)
      v1    == [h.vad EXCEPT !.recentVoices = ring]
      total == TotalWeight(ring)
  IN  [ vad |-> v1,
        voiced |-> total > 0 /\ VoicedWeight(ring) * 10 >= SmoothingThreshold(v1) * total ]

\* Faulty variant of Rejected: every frame is analysed.
Rejected_Never(frame) == FALSE

\* !audioData || audioData.length < this.frameSize
Rejected(frame) == frame.name = "missing" \/ frame.bytes < frameSize

\* detect(audioData): the detector afterwards, the smoothed decision returned and
\* the raw decision of the scorer.
detect(v, frame) ==
  IF Rejected(frame)
    THEN [vad |-> v, voiced |-> FALSE, raw |-> FALSE]
    ELSE LET f  == extractEnhancedFeatures(v, frame)
             v1 == updateAdaptiveThreshold(v, f.rms)
             v2 == updateEnergyHistory(v1, f.rms)
             d  == advancedVoiceDetection(v2, f)
             s  == enhancedTemporalSmoothing(d.vad, d.voiced)
         IN  [ vad |-> [s.vad EXCEPT !.lastRms = f.rms],
               voiced |-> s.voiced, raw |-> d.voiced ]

reset(v) ==
  [v EXCEPT !.recentVoices = << >>,
            !.consecutiveVoiced = 0,
            !.consecutiveSilence = 0,
            !.hangoverCounter = 0,
            !.backgroundNoise = Fix(InitialNoise),
            !.longTermNoise = Fix(InitialNoise),
            !.adaptiveThreshold = Fix(v.threshold),
            !.voiceConfidence = <<0, 0>>,
            !.voiceActivityStrength = 0,
            !.recentEnergies = << >>,
            !.noiseUpdateCounter = 0]

updateThreshold(v, newThreshold) ==
  [v EXCEPT !.threshold = newThreshold,
            !.adaptiveThreshold = Max(v.adaptiveThreshold, Fix(newThreshold))]

\* calibrateBackgroundNoise with one noise level (an array is averaged first)
calibrateBackgroundNoise(v, noise) ==
  [v EXCEPT !.backgroundNoise = Fix(noise),
            !.longTermNoise = Fix(noise),
            !.adaptiveThreshold = Max(Fix(v.threshold), Fix(noise) * 4)]

(***************************************************************************)
(* The earlier VADDetector, src/unnamed/part_000 (names carry a 0 where    *)
(* they clash with the detector above).                                    *)
(***************************************************************************)
smoothingWindow0 == 5
requiredVoicedFrames == 2
maxEnergy0 == 15000
hangoverTime0 == 3
InitialThreshold0 == 800
InitialNoise0 == 100

NewVAD0 ==
  [ threshold          |-> InitialThreshold0,
    adaptiveThreshold  |-> Fix(InitialThreshold0),
    backgroundNoise    |-> Fix(InitialNoise0),
    recentVoices       |-> << >>,
    consecutiveVoiced  |-> 0,
    consecutiveSilence |-> 0,
    hangoverCounter    |-> 0 ]

extractFeatures(frame) ==
  [rms |-> frame.rms, zcr |-> frame.zcr, spectralCentroid |-> frame.sc]

updateAdaptiveThreshold0(v, currentRms) ==
  LET bn == IF Fix(currentRms) * 2 < v.adaptiveThreshold
              THEN (v.backgroundNoise * 99 + Fix(currentRms)) \div 100
              ELSE v.backgroundNoise
  IN  [v EXCEPT !.backgroundNoise = bn,
                !.adaptiveThreshold = Max(Fix(v.threshold), bn * 3)]

multiCriteriaDetection(v, f) ==
  LET energyCheck   == Fix(f.rms) > v.adaptiveThreshold
      zcrCheck      == f.zcr > 10 /\ f.zcr < 300
      spectralCheck == f.spectralCentroid > 200 /\ f.spectralCentroid < 3000
      noiseCheck    == f.rms < maxEnergy0
      score == (IF energyCheck THEN 3 ELSE 0) + (IF zcrCheck THEN 2 ELSE 0)
               + (IF spectralCheck THEN 2 ELSE 0) + (IF noiseCheck THEN 1 ELSE 0)
  IN  score >= 4

RECURSIVE CountTrue(_)
CountTrue(ring) ==
  IF ring = << >> THEN 0 ELSE (IF ring[1] THEN 1 ELSE 0) + CountTrue(Tail(ring))

\* The counters after one raw decision and the decision after the hangover override.
HangoverStep0(v, isVoiced) ==
  IF isVoiced
    THEN [ vad |-> [v EXCEPT !.consecutiveVoiced = @ + 1,
                             !.consecutiveSilence = 0,
                             !.hangoverCounter = hangoverTime0],
           voiced |-> TRUE ]
    ELSE [ vad |-> [v EXCEPT !.consecutiveVoiced = 0,
                             !.consecutiveSilence = @ + 1,
                             !.hangoverCounter = IF @ > 0 THEN @ - 1 ELSE @],
           voiced |-> v.hangoverCounter > 0 ]

applyTemporalSmoothing(v, isVoiced) ==
  LET h      == HangoverStep0(v, isVoiced)
      ring   == PushRecent(h.vad.recentVoices, h.voiced, smoothingWindow0)
      v1     == [h.vad EXCEPT !.recentVoices = ring]
      voicedCount == CountTrue(ring)
      need   == Max(1, requiredVoicedFrames - 1)
  IN  [ vad |-> v1,
        voiced |-> IF v1.consecutiveVoiced >= need THEN voicedCount >= need
                   ELSE IF v1.hangoverCounter > 0 THEN voicedCount >= 1
                   ELSE voicedCount >= requiredVoicedFrames ]

detect0(v, frame) ==
  IF Rejected(frame)
    THEN [vad |-> v, voiced |-> FALSE, raw |-> FALSE]
    ELSE LET f   == extractFeatures(frame)
             v1  == updateAdaptiveThreshold0(v, f.rms)
             raw == multiCriteriaDetection(v1, f)
             s   == applyTemporalSmoothing(v1, raw)
         IN  [vad |-> s.vad, voiced |-> s.voiced, raw |-> raw]

reset0(v) ==
  [v EXCEPT !.recentVoices = << >>,
            !.consecutiveVoiced = 0,
            !.consecutiveSilence = 0,
            !.hangoverCounter = 0,
            !.backgroundNoise = Fix(InitialNoise0),
            !.adaptiveThreshold = Fix(v.threshold)]

(***************************************************************************)
(* AudioProcessor, src/services/audioProcessor.js: the class of lines      *)
(* 11-231 ("basic") and the class of lines 247-742 ("enhanced").           *)
(* audioBuffer is the sequence of the names of the buffered frames.        *)
(* The reply side of a processor: stream, the tokens its ragService has    *)
(* still to emit; listeners, the number of 'token' listeners on it;        *)
(* errorListeners, the number of 'error' listeners on it; synth,           *)
(* the sentences its ttsService has been asked for and not yet answered;   *)
(* sent, the sentences whose audio went out on the call's socket.          *)
(***************************************************************************)
silenceThreshold == 30
baseSilenceThreshold == 50
extendedSilenceThreshold == 100
gruntRejectionThreshold == 800
maxAudioLength == 160000
energyThreshold == 300
BytesPerSecond == 8000 * 2

\* constructor
NewProcessor ==
  [ vad               |-> NewVAD,
    audioBuffer       |-> << >>,
    isRecording       |-> FALSE,
    silenceCounter    |-> 0,
    isProcessingQuery |-> FALSE,
    sentenceBuffer    |-> << >>,
    listeners         |-> 0,
    errorListeners    |-> 0,
    filter            |-> "zero",
    stream            |-> << >>,
    synth             |-> << >>,
    sent              |-> << >> ]

\* Faulty variant of resetRecording: the detector of the call is reset as well.
resetRecording_ResetsVad(p) ==
  [p EXCEPT !.audioBuffer = << >>, !.isRecording = FALSE, !.silenceCounter = 0,
            !.filter = "zero", !.vad = reset(@)]

\* resetRecording (cleanup calls nothing else).  filter stands for lastSample,
\* previousSamples and dcOffset of the enhanced class: "zero" as the constructor and
\* resetRecording leave them, "used" once mulawToPcmEnhanced has run over a frame
\* (no mu-law byte decodes to 0, so dcOffset has moved).
resetRecording(p) ==
  [p EXCEPT !.audioBuffer = << >>, !.isRecording = FALSE, !.silenceCounter = 0,
            !.filter = "zero"]

\* mulawToPcmEnhanced(audioData) as far as the processor's fields go; the basic
\* mulawToPcm keeps no memory.
mulawToPcmEnhanced(v, p) ==
  IF v = "enhanced" THEN [p EXCEPT !.filter = "used"] ELSE p

RECURSIVE SumPairs(_)
SumPairs(S) ==
  IF S = {} THEN 0
  ELSE LET x == CHOOSE y \in S : TRUE IN x[2] + SumPairs(S \ {x})

\* The number of frames of a kind in a buffer.
CountKind(buf, n) == Cardinality({i \in DOMAIN buf : buf[i] = n})

\* What hasVoiceInWav's loop adds up over Buffer.concat(audioBuffer): the length in
\* bytes, the samples, and the sums of squares (units of 10^4), peaks, significant
\* samples and variations.
WavSums(buf) ==
  LET c(k) == CountKind(buf, k.name)
      n(k) == k.bytes \div 2
  IN  [ bytes   |-> SumPairs({<<k.name, c(k) * k.bytes>> : k \in FrameKinds}),
        samples |-> SumPairs({<<k.name, c(k) * n(k)>> : k \in FrameKinds}),
        sq      |-> SumPairs({<<k.name, c(k) * n(k) * k.wavsq>> : k \in FrameKinds}),
        peaks   |-> SumPairs({<<k.name, c(k) * k.peaks>> : k \in FrameKinds}),
        signif  |-> SumPairs({<<k.name, c(k) * k.signif>> : k \in FrameKinds}),
        cplx    |-> SumPairs({<<k.name, c(k) * k.cplx>> : k \in FrameKinds}) ]

\* rms > t for the sums w, t a multiple of 100; RmsAbove15 is rms > t * 1.5.
RmsAbove(w, t) == w.sq > w.samples * (t \div 100) * (t \div 100)
RmsAbove15(w, t) == 4 * w.sq > 9 * w.samples * (t \div 100) * (t \div 100)

\* The decision of hasVoiceInWav on the sums w; minSpectralComplexity is 0.3 and
\* 0.3 * 1.5 is the double just below 0.45.
VoiceCheck(w, threshold) ==
  IF w.bytes < 2 THEN FALSE
  ELSE IF /\ RmsAbove(w, gruntRejectionThreshold)
          /\ 10 * w.cplx < 3 * w.samples
          /\ 1000 * w.peaks < 5 * w.samples
    THEN FALSE
  ELSE IF 10 * w.bytes < 3 * BytesPerSecond
    THEN /\ RmsAbove15(w, threshold)
         /\ 100 * w.signif > 15 * w.samples
         /\ 100 * w.cplx >= 45 * w.samples
    ELSE /\ RmsAbove(w, threshold)
         /\ 1000 * w.peaks > 2 * w.samples
         /\ 100 * w.signif > 12 * w.samples
         /\ 10 * w.cplx > 3 * w.samples

\* hasVoiceInWav(wavBuffer, threshold)
hasVoiceInWav(buf, threshold) == VoiceCheck(WavSums(buf), threshold)

\* Faulty variant of TooShort: the minimum-duration check is gone.
TooShort_Never(bytes) == FALSE

\* audioLengthSeconds < 0.2 in processRecording (enhanced)
TooShort(bytes) == 10 * bytes < 2 * BytesPerSecond

\* Faulty variant of OutcomeOf: the confirmation by hasVoiceInWav is skipped.
OutcomeOf_Unconfirmed(v, w) ==
  IF w.bytes = 0 THEN "empty"
  ELSE IF v = "basic" THEN "handoff"
  ELSE IF TooShort(w.bytes) THEN "short"
  ELSE IF w.bytes > maxAudioLength THEN "error"
  ELSE "handoff"

\* voiceThreshold = isShortAudio ? 400 : 1000, isShortAudio being
\* audioLengthSeconds < 0.7
VoiceThreshold(bytes) == IF 10 * bytes < 7 * BytesPerSecond THEN 400 ELSE 1000

\* How the part of processRecording before its await ends for a buffer of the
\* sums w: "empty" (returns at once), "short", "error" (the assignment to the
\* const combinedBuffer throws), "novoice", or "handoff" (transcribe is called).
OutcomeOf(v, w) ==
  IF w.bytes = 0 THEN "empty"
  ELSE IF v = "basic" THEN "handoff"
  ELSE IF TooShort(w.bytes) THEN "short"
  ELSE IF w.bytes > maxAudioLength THEN "error"
  ELSE IF ~VoiceCheck(w, VoiceThreshold(w.bytes)) THEN "novoice"
  ELSE "handoff"

RecordingOutcome(v, buf) == OutcomeOf(v, WavSums(buf))

\* dynamicThreshold of processAudio (enhanced); silenceThreshold of the basic class.
DynamicThreshold(v, p) ==
  IF v = "basic" THEN silenceThreshold
  ELSE IF Len(p.audioBuffer) * 125 > 1000 * 1000
    THEN extendedSilenceThreshold
    ELSE baseSilenceThreshold

\* Faulty variant of KeepsVoiced: the energy gate of the enhanced class is gone.
KeepsVoiced_Always(v, frame) == TRUE

\* Whether processAudio pushes a frame the detector called voiced.
KeepsVoiced(v, frame) == v = "basic" \/ frame.energy >= energyThreshold

\* Faulty variant of AfterDetect: a non-voiced frame counts as silence also when
\* nothing is being recorded.
AfterDetect_CountsIdle(v, p, frame, r) ==
  IF r.voiced
    THEN [proc |-> [p EXCEPT !.vad = r.vad,
                             !.isRecording = TRUE,
                             !.silenceCounter = 0,
                             !.audioBuffer = IF KeepsVoiced(v, frame)
                                               THEN Append(@, frame.name) ELSE @],
          voiced |-> TRUE, appended |-> KeepsVoiced(v, frame), flush |-> "none"]
  ELSE IF p.isRecording /\ p.silenceCounter + 1 >= DynamicThreshold(v, p)
    THEN [proc |-> IF RecordingOutcome(v, p.audioBuffer) = "handoff"
                     THEN [p EXCEPT !.vad = r.vad, !.silenceCounter = @ + 1]
                     ELSE resetRecording([p EXCEPT !.vad = r.vad]),
          voiced |-> FALSE, appended |-> FALSE,
          flush |-> RecordingOutcome(v, p.audioBuffer)]
  ELSE [proc |-> [p EXCEPT !.vad = r.vad, !.silenceCounter = @ + 1],
        voiced |-> FALSE, appended |-> FALSE, flush |-> "none"]

\* processAudio after detect returned r.
AfterDetect(v, p, frame, r) ==
  IF r.voiced
    THEN [proc |-> [p EXCEPT !.vad = r.vad,
                             !.isRecording = TRUE,
                             !.silenceCounter = 0,
                             !.audioBuffer = IF KeepsVoiced(v, frame)
                                               THEN Append(@, frame.name) ELSE @],
          voiced |-> TRUE, appended |-> KeepsVoiced(v, frame), flush |-> "none"]
  ELSE IF p.isRecording /\ p.silenceCounter + 1 >= DynamicThreshold(v, p)
    THEN [proc |-> IF RecordingOutcome(v, p.audioBuffer) = "handoff"
                     THEN [p EXCEPT !.vad = r.vad, !.silenceCounter = @ + 1]
                     ELSE resetRecording([p EXCEPT !.vad = r.vad]),
          voiced |-> FALSE, appended |-> FALSE,
          flush |-> RecordingOutcome(v, p.audioBuffer)]
  ELSE [proc |-> [p EXCEPT !.vad = r.vad,
                           !.silenceCounter = IF p.isRecording THEN @ + 1 ELSE @],
        voiced |-> FALSE, appended |-> FALSE, flush |-> "none"]

\* processAudio(audioData) up to the await inside processRecording: the processor
\* afterwards, the detector's smoothed decision, whether the frame was pushed, and
\* how the flush it started (if any) ended.  A flush that does not reach transcribe
\* returns at once and resetRecording follows.
processAudio(v, p, frame) ==
  IF v = "enhanced" /\ p.isProcessingQuery
    THEN [proc |-> p, voiced |-> FALSE, appended |-> FALSE, flush |-> "none"]
    ELSE AfterDetect(v, mulawToPcmEnhanced(v, p), frame, detect(p.vad, frame))

\* The tokens one answer of the dialogue service arrives as.
ReplyTokens == <<"Hi", "there.", "See", "you.", "[COMPLETED]">>

\* A token that closes a sentence (ends with . ! or ?).
EndsSentence(tok) == tok \in {"there.", "you."}

\* Faulty variant of StartReply: the processor marks itself busy with the query.
StartReply_MarksQuery(p) ==
  [p EXCEPT !.stream = @ \o ReplyTokens, !.listeners = @ + 1,
            !.isProcessingQuery = TRUE]

\* getResponse and the registration of one more 'token' listener.
StartReply(p) ==
  [p EXCEPT !.stream = @ \o ReplyTokens, !.listeners = @ + 1]

\* One 'token' listener handling a token.
OnToken(p, tok) ==
  IF tok = "[COMPLETED]" THEN [p EXCEPT !.listeners = 0]
  ELSE IF EndsSentence(tok)
    THEN [p EXCEPT !.sentenceBuffer = << >>,
                   !.synth = Append(@, Append(p.sentenceBuffer, tok))]
    ELSE [p EXCEPT !.sentenceBuffer = Append(@, tok)]

\* emit('token', tok): each of the k listeners registered when the emit began.
RECURSIVE EmitToken(_, _, _)
EmitToken(p, tok, k) ==
  IF k = 0 THEN p ELSE EmitToken(OnToken(p, tok), tok, k - 1)

\* playAudioViaMessage for the sentence of request i: ws.send throws on a closed
\* socket and the rest is skipped; after the send the basic class clears
\* sentenceBuffer, and the enhanced class sets isProcessingQuery to false.
playAudioViaMessage(v, p, i, open) ==
  LET rest == [j \in 1..(Len(p.synth) - 1) |->
                 IF j < i THEN p.synth[j] ELSE p.synth[j + 1]]
      q == [p EXCEPT !.synth = rest]
  IN  IF ~open THEN q
      ELSE [q EXCEPT !.sent = Append(@, p.synth[i]),
                     !.sentenceBuffer = IF v = "basic" THEN << >> ELSE @,
                     !.isProcessingQuery = IF v = "enhanced" THEN FALSE ELSE @]

(***************************************************************************)
(* State.  regime selects the part of the system a behaviour exercises and *)
(* the input regime it is driven with; it never changes.                   *)
(*   det, det0   a VADDetector of vadDetector.js / of part_000             *)
(*   obs         what the last detector operation was and returned, and    *)
(*               gap: the number of raw-silent frames since the last       *)
(*               raw-voiced frame (-1: none since construction or reset)   *)
(*   trace       the <<raw, smoothed>> results of det0 since construction  *)
(*   vframes     detect calls made (mixed input regimes)                   *)
(*   vops        threshold and calibration calls made                      *)
(* The server of app.js, for one call sid and one media-stream socket:     *)
(*   variant         which AudioProcessor class app.js has loaded          *)
(*   sessions        the session objects created so far                    *)
(*   activeSessions  the table's entry for the call sid: an index into     *)
(*                   sessions, 0 when there is none                        *)
(*   conn            the socket, the closure variables of its handlers,    *)
(*                   and whether 'stop' has come since the last 'start'    *)
(*   procs           the AudioProcessor objects created so far             *)
(*   pending         the processRecording executions waiting in            *)
(*                   await transcribe: the processor and the session       *)
(*                   object each one holds                                 *)
(*   handoffs        the number of transcribe calls made so far            *)
(*   caller          the far end: the length of its current run of speech  *)
(*                   frames, the utterances begun, the silent frames that  *)
(*                   went through processAudio since the last speech       *)
(*                   frame, and whether a frame has been turned away       *)
(*                   because of isProcessing; seq, the number of frames    *)
(*                   sent into conn.inbox, the media messages in flight to *)
(*                   the handler, and log, the frames the handler has      *)
(*                   taken: number, kind and whether the frame went        *)
(*                   through processAudio                                  *)
(*   ev              what the last event did when it was a media frame:    *)
(*                   the frame, whether it was turned away, the smoothed   *)
(*                   decision, whether it was pushed, isRecording before   *)
(*                   it, how the flush it started ended, and the buffer    *)
(*                   and the silence run of that flush                     *)
(*   pure            the argument and the results of the function a        *)
(*                   regime applies to one input (codec, WAV framing)      *)
(*   node            the Node process: whether it is running, and which    *)
(*                   TranscriptionService class of                         *)
(*                   transcriptionService.js it has loaded                 *)
(***************************************************************************)
VARIABLES regime, node, pure, det, det0, obs, trace, vframes, vops,
          variant, sessions, activeSessions, conn, procs, pending, handoffs,
          caller, ev

vadVars == <<det, det0, obs, trace, vframes, vops>>
appVars == <<variant, sessions, activeSessions, conn, procs, pending, handoffs,
             caller, ev>>
vars == <<regime, node, pure, vadVars, appVars>>

\* Bounds of the input regimes.
MaxVadFrames == 7
MaxNoiseUpdates == 101
MaxVoicedRun == 11
MaxVadOps == 2
MaxTrackerFrames == 102
MaxLoud == 2
MaxOpsFrames == 3
MaxUtterances == 2
MaxLead == 1
MaxQuiet == 60
MaxCreates == 2
MaxInbox == 2
MaxTableQuiet == 40

LongKinds == {f \in FrameKinds : f.name \in {"silence", "speech"}}
VadKinds == {f \in FrameKinds : f.name # "hum"}
ThresholdInputs == {0, 200, 1500}
NoiseInputs == {0, 100, 1000}

\* The lengths, in frames, of the utterances the caller speaks: in a call with
\* every event, in a call of several turns, and in a conversation of one utterance.
CallLengths == {1, 2}
TableLengths == {2}
TurnLengths == {1, 10}
TalkLengths == {9, 10, 51, maxAudioLength \div frameSize + 1}
HumLengths == {12, 20, 40}
ChatLengths == {10}
OrderLength == 10

NoEvent ==
  [ type |-> "none", frame |-> "", dropped |-> FALSE, voiced |-> FALSE,
    appended |-> FALSE, wasRecording |-> FALSE, flush |-> "none",
    frames |-> 0, bytes |-> 0, silence |-> 0, now |-> 0, removed |-> FALSE,
    response |-> "none", dialogue |-> FALSE ]

Event(t) == [NoEvent EXCEPT !.type = t]

NoObs == [op |-> "none", raw |-> FALSE, voiced |-> FALSE, gap |-> -1,
          loud |-> 0, blends |-> 0]

NoPure == [fn |-> "none"]

\* The two TranscriptionService classes of transcriptionService.js: the one of lines
\* 4-22, whose transcribe falls back to a fixed sentence, and the one of lines 28-46.
Transcribers == {"fallback", "plain"}

\* What the POST of transcribe comes to: it is rejected, it is answered without a
\* transcription (missing or empty), or it is answered with one.
Responses == {"error", "empty", "text"}

\* transcribe(wavBuffer): null after an error; uploadResponse.data.transcription,
\* which the first class replaces by its fixed sentence when it is falsy.
transcribe(t, response) ==
  IF response = "error" THEN "null"
  ELSE IF response = "text" THEN "text"
  ELSE IF t = "fallback" THEN "Soory! I did not receive any input, please try again"
  ELSE ""

\* transcription && transcription.trim()
HasText(transcription) == transcription \notin {"null", ""}

\* Everything but the input of a pure function, as it is after construction.
InitState(r) ==
  /\ regime = r
  /\ node \in [alive : {TRUE},
               transcriber : IF r = "talk" THEN Transcribers ELSE {"plain"}]
  /\ det = NewVAD
  /\ det0 = NewVAD0
  /\ obs = NoObs
  /\ trace = << >>
  /\ vframes = 0
  /\ vops = 0
  /\ variant \in (IF r \in {"talk", "turns", "order", "chat"} THEN {"basic", "enhanced"}
                  ELSE IF r \in {"call", "table", "reconnect"} THEN {"basic"}
                  ELSE IF r = "hum" THEN {"enhanced"} ELSE {"none"})
  /\ sessions = << >>
  /\ activeSessions = 0
  /\ conn = [open |-> TRUE, stopped |-> FALSE, callSid |-> FALSE, audioProcessor |-> 0,
             inbox |-> << >>, prior |-> "none"]
  /\ procs = << >>
  /\ pending = << >>
  /\ handoffs = 0
  /\ caller = [run |-> 0, utter |-> 0, quiet |-> 0, dropped |-> FALSE,
               seq |-> 0, log |-> << >>]
  /\ ev = NoEvent

InitRegime(r) ==
  /\ pure = NoPure
  /\ InitState(r)

\* The observation after a detect call that returned r.
Observe(r, frame) ==
  IF frame.bytes < frameSize
    THEN [obs EXCEPT !.op = "short", !.raw = r.raw, !.voiced = r.voiced]
    ELSE [op |-> "detect", raw |-> r.raw, voiced |-> r.voiced,
          gap |-> IF r.raw THEN 0 ELSE IF obs.gap < 0 THEN -1 ELSE obs.gap + 1,
          loud |-> obs.loud, blends |-> obs.blends]

\* What the regime of the threshold tracker counts on top of the observation: the
\* frames that took the early return of updateAdaptiveThreshold, and the executions
\* of the assignment to longTermNoise.
Tracked(o, v, frame) ==
  IF regime # "tracker" \/ frame.bytes < frameSize THEN o
  ELSE LET f == extractEnhancedFeatures(v, frame)
       IN  IF LoudFrame(v, f.rms)
             THEN [o EXCEPT !.loud = @ + 1]
             ELSE IF BlendDue(v.noiseUpdateCounter + 1)
               THEN [o EXCEPT !.blends = @ + 1]
               ELSE o

\* vadDetector.detect(frame)
VadDetect(frame) ==
  /\ \/ regime = "mixed" /\ vframes < MaxVadFrames
     \/ regime = "ops" /\ vframes < MaxOpsFrames
     \/ /\ regime = "long"
        /\ frame \in LongKinds
        /\ det.noiseUpdateCounter < MaxNoiseUpdates
        /\ det.consecutiveVoiced < MaxVoicedRun
     \/ /\ regime = "tracker"
        /\ frame \in LongKinds
        /\ vframes < MaxTrackerFrames
        /\ frame.name = "speech" => obs.loud < MaxLoud
  /\ LET r == detect(det, frame)
     IN  /\ det' = r.vad
         /\ obs' = Tracked(Observe(r, frame), det, frame)
  /\ vframes' = IF regime = "long" THEN vframes ELSE vframes + 1
  /\ UNCHANGED <<regime, node, pure, det0, trace, vops, appVars>>

\* vadDetector.reset()
VadReset ==
  /\ regime \in {"mixed", "long", "ops"}
  /\ obs.op # "reset"
  /\ det' = reset(det)
  /\ obs' = [NoObs EXCEPT !.op = "reset"]
  /\ UNCHANGED <<regime, node, pure, det0, trace, vframes, vops, appVars>>

\* vadDetector.updateThreshold(newThreshold)
VadUpdateThreshold(t) ==
  /\ regime = "ops"
  /\ vops < MaxVadOps
  /\ det' = updateThreshold(det, t)
  /\ obs' = [obs EXCEPT !.op = "updateThreshold"]
  /\ vops' = vops + 1
  /\ UNCHANGED <<regime, node, pure, det0, trace, vframes, appVars>>

\* vadDetector.calibrateBackgroundNoise(noise)
VadCalibrate(noise) ==
  /\ regime = "ops"
  /\ vops < MaxVadOps
  /\ det' = calibrateBackgroundNoise(det, noise)
  /\ obs' = [obs EXCEPT !.op = "calibrate"]
  /\ vops' = vops + 1
  /\ UNCHANGED <<regime, node, pure, det0, trace, vframes, appVars>>

\* detect of the earlier detector
Vad0Detect(frame) ==
  /\ regime = "legacy"
  /\ vframes < MaxVadFrames
  /\ LET r == detect0(det0, frame)
     IN  /\ det0' = r.vad
         /\ obs' = Observe(r, frame)
         /\ trace' = IF frame.bytes < frameSize THEN trace
                     ELSE Append(trace, <<r.raw, r.voiced>>)
  /\ vframes' = vframes + 1
  /\ UNCHANGED <<regime, node, pure, det, vops, appVars>>

\* reset of the earlier detector
Vad0Reset ==
  /\ regime = "legacy"
  /\ obs.op # "reset"
  /\ det0' = reset0(det0)
  /\ obs' = [NoObs EXCEPT !.op = "reset"]
  /\ trace' = << >>
  /\ UNCHANGED <<regime, node, pure, det, vframes, vops, appVars>>

\* A detector driven by detect and reset only: the current detector with mixed
\* frames or with long runs of silence and speech, or the earlier detector.
InitVad == \E r \in {"mixed", "long", "legacy"} : InitRegime(r)

NextVad ==
  \/ \E f \in VadKinds : VadDetect(f)
  \/ VadReset
  \/ \E f \in VadKinds : Vad0Detect(f)
  \/ Vad0Reset

SpecVad == InitVad /\ [][NextVad]_vars

\* A detector fed silence with a few very loud frames, for some hundred frames.
InitTracker == InitRegime("tracker")

NextTracker == \E f \in LongKinds : VadDetect(f)

SpecTracker == InitTracker /\ [][NextTracker]_vars

\* A detector driven by all its public operations.
InitVadOps == InitRegime("ops")

NextVadOps ==
  \/ \E f \in VadKinds : VadDetect(f)
  \/ VadReset
  \/ \E t \in ThresholdInputs : VadUpdateThreshold(t)
  \/ \E n \in NoiseInputs : VadCalibrate(n)

SpecVadOps == InitVadOps /\ [][NextVadOps]_vars

(***************************************************************************)
(* The WebSocket handlers of src/app.js, the continuation of               *)
(* processRecording after transcribe, the events of the dialogue and       *)
(* speech services, and the sweep of src/services/sessionManager.js.       *)
(***************************************************************************)
SESSION_TIMEOUT_MS == 10 * 60 * 1000
ClockValues == {0, SESSION_TIMEOUT_MS + 1}
CreationTimes == {0, 1}
SweepTimes == {SESSION_TIMEOUT_MS - 1, SESSION_TIMEOUT_MS + 1}
AppKinds == {f \in FrameKinds : f.name \in {"silence", "speech", "hum"}}

\* global.activeSessions.get(callSid) with the callSid of the socket's closure
SessionOf(c) == IF c.callSid THEN activeSessions ELSE 0

IsProcessing(s) == s # 0 /\ sessions[s].isProcessing

\* Faulty variant of MediaGuard: the frame is processed whatever isProcessing says.
MediaGuard_IgnoresProcessing(p, s) == p # 0

\* The condition of case 'media':
\* audioProcessor && !global.activeSessions.get(callSid)?.isProcessing
MediaGuard(p, s) == p # 0 /\ ~IsProcessing(s)

\* The current processor is in the middle of an utterance that it is listening to.
Listening ==
  /\ conn.audioProcessor # 0
  /\ procs[conn.audioProcessor].isRecording
  /\ ~IsProcessing(SessionOf(conn))

\* What the caller utters: speech, or a hum in the regime of that name.
Voice == IF regime = "hum" THEN "hum" ELSE "speech"

\* The frames the caller may send next.  It speaks once the stream has started; an
\* utterance is an unbroken run of speech frames of one of the regime's lengths,
\* begun when the assembler is not listening to the previous one; and it sends
\* silence while the assembler is listening or a request is outstanding, and at
\* most MaxLead silent frames otherwise.  Where the stream is connected twice, the
\* frames come on the second connection.
CallerMay(frame) ==
  LET lengths == IF regime = "talk" THEN TalkLengths
                 ELSE IF regime = "turns" THEN TurnLengths
                 ELSE IF regime = "chat" THEN ChatLengths
                 ELSE IF regime = "hum" THEN HumLengths
                 ELSE IF regime = "table" THEN TableLengths ELSE CallLengths
      longest == CHOOSE n \in lengths : \A m \in lengths : m <= n
      utterances == IF regime \in {"talk", "table", "hum", "reconnect"} THEN 1
                    ELSE MaxUtterances
  IN  /\ regime = "reconnect" => conn.prior # "none"
      /\ IF frame.name = Voice
           THEN /\ conn.audioProcessor # 0
                /\ caller.run < longest
                /\ caller.run > 0 \/ (caller.utter < utterances /\ ~Listening)
           ELSE /\ caller.run = 0 \/ caller.run \in lengths
                /\ caller.quiet < (IF regime = "table" THEN MaxTableQuiet ELSE MaxQuiet)
                /\ \/ Listening
                   \/ IsProcessing(SessionOf(conn))
                   \/ caller.quiet < MaxLead

\* Faulty variant of NextMessage: the newest message in flight is delivered.
NextMessage_Newest(inbox) == inbox[Len(inbox)]

\* The message the socket hands to the 'message' handler next: the oldest one in
\* flight.
NextMessage(inbox) == Head(inbox)

\* processed: the frame went through processAudio.  Where the frames in flight are
\* part of the state, the frame is entered in the log with its number.
CallerAfter(frame, processed, turnedAway) ==
  IF regime = "order"
    THEN [caller EXCEPT !.dropped = @ \/ turnedAway,
                        !.log = Append(@, [seq |-> NextMessage(conn.inbox).seq,
                                           frame |-> frame.name,
                                           processed |-> processed])]
  ELSE IF frame.name = Voice
    THEN [caller EXCEPT !.run = @ + 1,
                        !.utter = IF caller.run = 0 THEN @ + 1 ELSE @,
                        !.quiet = 0,
                        !.dropped = @ \/ turnedAway]
    ELSE [caller EXCEPT !.run = 0,
                        !.quiet = IF processed THEN @ + 1 ELSE @,
                        !.dropped = @ \/ turnedAway]

SetProcessing(s, b) ==
  IF s # 0 THEN [sessions EXCEPT ![s].isProcessing = b] ELSE sessions

\* Faulty variant of Finally: isProcessing is left as it is.
Finally_KeepsProcessing(s) == sessions

\* finally { if (session) session.isProcessing = false; }
Finally(s) == SetProcessing(s, FALSE)

\* What the regime of the session table records of an event that is not a frame.
TableEvent(t, removed) ==
  IF regime = "table" THEN [Event(t) EXCEPT !.removed = removed] ELSE NoEvent

\* The time on the clock of the sweep at which 'start' messages arrive.  A session
\* keeps in since, which the program does not store, the time it was entered in
\* the table.
StartTime == 0

\* case 'start'; a media stream carries one 'start' message, except in the regime
\* of the session table, where a second one with the same callSid may arrive.
Start ==
  /\ node.alive
  /\ regime \in {"call", "turns", "talk", "hum", "table", "order", "chat", "reconnect"}
  /\ conn.open
  /\ Len(procs) = 0 \/ (regime = "table" /\ Len(procs) < MaxCreates)
  /\ procs' = Append(procs, NewProcessor)
  /\ sessions' = Append(sessions, [isProcessing |-> FALSE, createdAt |-> << >>,
                                   processor |-> Len(procs) + 1, since |-> StartTime])
  /\ activeSessions' = Len(sessions) + 1
  /\ conn' = [conn EXCEPT !.stopped = FALSE, !.callSid = TRUE,
                           !.audioProcessor = Len(procs) + 1]
  /\ UNCHANGED <<regime, node, pure, vadVars, variant, pending, handoffs, caller>>
  /\ ev' = TableEvent("start", FALSE)

\* case 'media' when the frame goes to processAudio and r is what that did: held is
\* the session object that processRecording looks up and keeps.
MediaProcessed(p, frame, r, held) ==
  /\ procs' = [procs EXCEPT ![p] = r.proc]
  /\ pending' = IF r.flush = "handoff"
                  THEN Append(pending, [proc |-> p, session |-> held])
                  ELSE pending
  /\ handoffs' = IF r.flush = "handoff" THEN handoffs + 1 ELSE handoffs
  /\ sessions' = IF r.flush = "handoff" THEN SetProcessing(held, TRUE)
                 ELSE IF r.flush \in {"short", "error", "novoice"}
                   THEN Finally(held)
                   ELSE sessions
  /\ ev' = [ type |-> "media", frame |-> frame.name, dropped |-> FALSE,
             voiced |-> r.voiced, appended |-> r.appended,
             wasRecording |-> procs[p].isRecording,
             flush |-> r.flush,
             frames |-> IF r.flush = "none" THEN 0 ELSE Len(procs[p].audioBuffer),
             bytes |-> IF r.flush = "none" THEN 0
                       ELSE WavSums(procs[p].audioBuffer).bytes,
             silence |-> IF r.flush = "none" THEN 0
                         ELSE procs[p].silenceCounter + 1,
             now |-> 0, removed |-> FALSE, response |-> "none", dialogue |-> FALSE ]
  /\ caller' = CallerAfter(frame, TRUE, FALSE)

\* case 'media' for a frame
MediaCase(frame) ==
  IF MediaGuard(conn.audioProcessor, SessionOf(conn))
    THEN MediaProcessed(conn.audioProcessor, frame,
                        processAudio(variant, procs[conn.audioProcessor], frame),
                        activeSessions)
    ELSE /\ ev' = [Event("media") EXCEPT !.frame = frame.name, !.dropped = TRUE]
         /\ caller' = CallerAfter(frame, FALSE, IsProcessing(SessionOf(conn)))
         /\ UNCHANGED <<procs, pending, handoffs, sessions>>

\* case 'media': processAudio runs to the await inside processRecording, or to its
\* end when no transcribe call is made.
Media(frame) ==
  /\ node.alive
  /\ regime \in {"call", "turns", "talk", "hum", "table", "chat", "reconnect"}
  /\ conn.open
  /\ frame.name \in {"silence", Voice}
  /\ CallerMay(frame)
  /\ MediaCase(frame)
  /\ UNCHANGED <<regime, node, pure, vadVars, variant, activeSessions, conn>>

\* The caller sends a frame; it is in flight until the handler takes it.
Send(frame) ==
  /\ regime = "order"
  /\ node.alive
  /\ conn.open
  /\ conn.callSid
  /\ Len(conn.inbox) < MaxInbox
  /\ frame.name \in {"silence", Voice}
  /\ IF frame.name = Voice
       THEN /\ caller.run < OrderLength
            /\ caller.run > 0 \/ caller.utter < 1
       ELSE /\ caller.run \in {0, OrderLength}
            /\ caller.quiet < MaxQuiet
            /\ caller.utter >= 1 \/ caller.quiet < MaxLead
  /\ conn' = [conn EXCEPT !.inbox = Append(@, [seq |-> caller.seq + 1,
                                               frame |-> frame.name])]
  /\ caller' = IF frame.name = Voice
                 THEN [caller EXCEPT !.seq = @ + 1, !.run = @ + 1, !.quiet = 0,
                                     !.utter = IF caller.run = 0 THEN @ + 1 ELSE @]
                 ELSE [caller EXCEPT !.seq = @ + 1, !.run = 0, !.quiet = @ + 1]
  /\ ev' = NoEvent
  /\ UNCHANGED <<regime, node, pure, vadVars, variant, sessions, activeSessions, procs,
                 pending, handoffs>>

\* ws.on('message') is called with the next message in flight, a media frame: case
\* 'media' runs as in Media.
Receive ==
  /\ regime = "order"
  /\ node.alive
  /\ conn.open
  /\ conn.inbox # << >>
  /\ MediaCase(FrameNamed(NextMessage(conn.inbox).frame))
  /\ conn' = [conn EXCEPT !.inbox = Tail(@)]
  /\ UNCHANGED <<regime, node, pure, vadVars, variant, activeSessions>>

\* case 'stop'
Stop ==
  /\ node.alive
  /\ regime \in {"call", "table"}
  /\ conn.open
  /\ ~conn.stopped
  /\ conn' = [conn EXCEPT !.stopped = TRUE]
  /\ procs' = IF conn.audioProcessor # 0
                THEN [procs EXCEPT ![conn.audioProcessor] = resetRecording(@)]
                ELSE procs
  /\ activeSessions' = IF conn.callSid THEN 0 ELSE activeSessions
  /\ UNCHANGED <<regime, node, pure, vadVars, variant, sessions, pending, handoffs, caller>>
  /\ ev' = TableEvent("stop", conn.callSid /\ activeSessions # 0)

\* ws.on('close')
Close ==
  /\ node.alive
  /\ regime \in {"call", "table"}
  /\ conn.open
  /\ conn' = [conn EXCEPT !.open = FALSE]
  /\ activeSessions' = IF conn.callSid THEN 0 ELSE activeSessions
  /\ UNCHANGED <<regime, node, pure, vadVars, variant, sessions, procs, pending, handoffs, caller>>
  /\ ev' = TableEvent("close", conn.callSid /\ activeSessions # 0)

\* The stream of the call is connected again: a second connection receives 'start'
\* with the callSid of the first, which is still open.  conn is from now on the
\* closure of the second connection, and conn.prior tells whether the first is open.
Reconnect ==
  /\ node.alive
  /\ regime = "reconnect"
  /\ conn.open /\ conn.callSid /\ ~conn.stopped
  /\ conn.prior = "none"
  /\ procs' = Append(procs, NewProcessor)
  /\ sessions' = Append(sessions, [isProcessing |-> FALSE, createdAt |-> << >>,
                                   processor |-> Len(procs) + 1, since |-> StartTime])
  /\ activeSessions' = Len(sessions) + 1
  /\ conn' = [conn EXCEPT !.audioProcessor = Len(procs) + 1, !.prior = "open"]
  /\ caller' = [caller EXCEPT !.run = 0, !.utter = 0, !.quiet = 0]
  /\ ev' = Event("start")
  /\ UNCHANGED <<regime, node, pure, vadVars, variant, pending, handoffs>>

\* ws.on('close') of the first connection, whose closure holds the same callSid.
ClosePrior ==
  /\ node.alive
  /\ regime = "reconnect"
  /\ conn.prior = "open"
  /\ conn' = [conn EXCEPT !.prior = "closed"]
  /\ activeSessions' = 0
  /\ ev' = Event("close")
  /\ UNCHANGED <<regime, node, pure, vadVars, variant, sessions, procs, pending, handoffs, caller>>

\* Faulty variant of Expired: a session that is processing is spared.
Expired_SparesBusy(session, now) ==
  /\ session.createdAt # << >>
  /\ now - session.createdAt[1] > SESSION_TIMEOUT_MS
  /\ ~session.isProcessing

\* now - session.createdAt > SESSION_TIMEOUT_MS; a session without createdAt
\* gives NaN, and the comparison is false.
Expired(session, now) ==
  session.createdAt # << >> /\ now - session.createdAt[1] > SESSION_TIMEOUT_MS

\* deleteSession(callSid): cleanup of the session's processor, then the entry goes.
deleteSession ==
  IF activeSessions # 0
    THEN /\ procs' = [procs EXCEPT ![sessions[activeSessions].processor] =
                                       resetRecording(@)]
         /\ activeSessions' = 0
    ELSE UNCHANGED <<procs, activeSessions>>

\* One run of the interval callback of startAutoCleanup, with deleteSession.  The
\* regime of the session table records every sweep with its time, which is not
\* before the creation of the session in the table.
Sweep(now) ==
  /\ node.alive
  /\ regime \in {"call", "table"}
  /\ activeSessions # 0 /\ sessions[activeSessions].createdAt # << >>
        => now >= sessions[activeSessions].createdAt[1]
  /\ IF activeSessions # 0 /\ Expired(sessions[activeSessions], now)
       THEN /\ deleteSession
            /\ ev' = [TableEvent("sweep", TRUE) EXCEPT !.now = IF regime = "table" THEN now ELSE 0]
       ELSE /\ UNCHANGED <<procs, activeSessions>>
            /\ ev' = IF regime = "table"
                        THEN [TableEvent("sweep", FALSE) EXCEPT !.now = now]
                        ELSE ev
  /\ UNCHANGED <<regime, node, pure, vadVars, variant, sessions, conn, pending, handoffs, caller>>

\* createSession(callSid, streamSid, ws, processor) at time now, with a processor
\* made for it: the entry of callSid is set to the new session.
CreateSession(now) ==
  /\ node.alive
  /\ regime = "table"
  /\ Len(procs) < MaxCreates
  /\ procs' = Append(procs, NewProcessor)
  /\ sessions' = Append(sessions, [isProcessing |-> FALSE, createdAt |-> <<now>>,
                                   processor |-> Len(procs) + 1, since |-> now])
  /\ activeSessions' = Len(sessions) + 1
  /\ ev' = TableEvent("createSession", FALSE)
  /\ UNCHANGED <<regime, node, pure, vadVars, variant, conn, pending, handoffs, caller>>

\* deleteSession(callSid) called on its own
DeleteSession ==
  /\ node.alive
  /\ regime = "table"
  /\ activeSessions # 0
  /\ deleteSession
  /\ ev' = TableEvent("deleteSession", TRUE)
  /\ UNCHANGED <<regime, node, pure, vadVars, variant, sessions, conn, pending, handoffs, caller>>

\* transcribe answers request i: the rest of processRecording (getResponse and the
\* listeners when there is text, then finally) and, back in processAudio,
\* resetRecording.
TranscribeDone(i, response) ==
  /\ node.alive
  /\ i \in DOMAIN pending
  /\ LET e    == pending[i]
         text == HasText(transcribe(node.transcriber, response))
     IN  /\ text => regime \in {"talk", "chat"}
         /\ pending' = [j \in 1..(Len(pending) - 1) |->
                          IF j < i THEN pending[j] ELSE pending[j + 1]]
         /\ sessions' = Finally(e.session)
         /\ procs' = [procs EXCEPT ![e.proc] =
                        resetRecording(IF text THEN StartReply(@) ELSE @)]
         /\ ev' = [Event("transcribed") EXCEPT !.response = response,
                                              !.dialogue = text]
  /\ UNCHANGED <<regime, node, pure, vadVars, variant, activeSessions, conn, handoffs, caller>>

\* The ragService of processor p emits its next token.
Token(p) ==
  /\ node.alive
  /\ p \in DOMAIN procs
  /\ procs[p].stream # << >>
  /\ procs' = [procs EXCEPT ![p] =
                 EmitToken([@ EXCEPT !.stream = Tail(@)], Head(@.stream), @.listeners)]
  /\ UNCHANGED <<regime, node, pure, vadVars, variant, sessions, activeSessions, conn, pending,
                 handoffs, caller>>
  /\ ev' = NoEvent

\* The ttsService of processor p emits 'buffer' for its request i.
TtsBuffer(p, i) ==
  /\ node.alive
  /\ p \in DOMAIN procs
  /\ i \in DOMAIN procs[p].synth
  /\ procs' = [procs EXCEPT ![p] = playAudioViaMessage(variant, @, i, conn.open)]
  /\ UNCHANGED <<regime, node, pure, vadVars, variant, sessions, activeSessions, conn, pending,
                 handoffs, caller>>
  /\ ev' = NoEvent

\* emitter.emit('error', error) of Node's EventEmitter: the listeners are called,
\* and without a listener the error is thrown out of emit.
EmitError(listeners) == IF listeners > 0 THEN "delivered" ELSE "thrown"

\* The WebSocket that getResponse opened for processor p fails while its answer is
\* still to come: ws.on('error') logs and emits 'error' on the RAGService.  What emit
\* throws leaves the callback of the socket uncaught, and the process exits with
\* its sockets.
RagError(p) ==
  /\ node.alive
  /\ p \in DOMAIN procs
  /\ procs[p].stream # << >>
  /\ LET thrown == EmitError(procs[p].errorListeners) = "thrown"
     IN  /\ node' = [node EXCEPT !.alive = ~thrown]
         /\ conn' = [conn EXCEPT !.open = @ /\ ~thrown]
  /\ ev' = Event("ragError")
  /\ UNCHANGED <<regime, pure, vadVars, variant, sessions, activeSessions, procs, pending,
                 handoffs, caller>>

\* One stream, undisturbed: a conversation of one utterance with its reply, or
\* several turns with a recognition service that finds no text, with either class
\* of AudioProcessor; or a caller who hums once to the enhanced class.
InitApp == \E r \in {"talk", "turns", "hum"} : InitRegime(r)

NextApp ==
  \/ Start
  \/ \E f \in AppKinds : Media(f)
  \/ \E i \in DOMAIN pending, response \in Responses : TranscribeDone(i, response)
  \/ \E p \in DOMAIN procs : Token(p)
  \/ \E p \in DOMAIN procs : RagError(p)
  \/ \E p \in DOMAIN procs : \E i \in DOMAIN procs[p].synth : TtsBuffer(p, i)

SpecApp == InitApp /\ [][NextApp]_vars

\* A conversation of several turns with their replies.  Every request to the
\* recognition service is answered in the end, with a response or with a failure.
InitChat == InitRegime("chat")

Answered == \E i \in DOMAIN pending, response \in Responses : TranscribeDone(i, response)

SpecChat == InitChat /\ [][NextApp]_vars /\ WF_vars(Answered)

\* A call with every event of the socket and the sweep: short utterances, the basic
\* class and a recognition service that finds no text.
InitCall == InitRegime("call")

NextCall ==
  \/ Start
  \/ \E f \in AppKinds : Media(f)
  \/ Stop
  \/ Close
  \/ \E now \in ClockValues : Sweep(now)
  \/ \E i \in DOMAIN pending : TranscribeDone(i, "error")

SpecCall == InitCall /\ [][NextCall]_vars

\* A call whose stream is connected a second time before the first connection
\* closes.
InitReconnect == InitRegime("reconnect")

NextReconnect ==
  \/ Start
  \/ Reconnect
  \/ \E f \in AppKinds : Media(f)
  \/ ClosePrior
  \/ \E i \in DOMAIN pending : TranscribeDone(i, "error")

SpecReconnect == InitReconnect /\ [][NextReconnect]_vars

\* One stream whose frames are in flight before the handler takes them, and a
\* recognition service that fails.
InitOrder == InitRegime("order")

NextOrder ==
  \/ Start
  \/ \E f \in AppKinds : Send(f)
  \/ Receive
  \/ \E i \in DOMAIN pending : TranscribeDone(i, "error")

SpecOrder == InitOrder /\ [][NextOrder]_vars

\* The session table with everything that writes it: createSession, deleteSession
\* and the sweep of sessionManager.js, and the handlers of app.js.
InitTable == InitRegime("table")

NextTable ==
  \/ Start
  \/ \E now \in CreationTimes : CreateSession(now)
  \/ \E f \in AppKinds : Media(f)
  \/ Stop
  \/ Close
  \/ DeleteSession
  \/ \E now \in SweepTimes : Sweep(now)
  \/ \E i \in DOMAIN pending : TranscribeDone(i, "error")

SpecTable == InitTable /\ [][NextTable]_vars

\* The AudioProcessor of the socket before and after a step.
Assembler == procs[conn.audioProcessor]
AssemblerAfter == procs'[conn.audioProcessor]

\* C1: a media frame that arrives while the call's session has isProcessing = true
\* changes nothing in the processor (it is not passed to the VAD, not buffered, and
\* isRecording stays), starts no flush and leaves the session alone; and a frame the
\* VAD calls voiced, which can only be one that arrived with isProcessing false, is
\* appended to audioBuffer (basic class).
C1_NoOverlap ==
  [][ /\ (ev'.type = "media" /\ IsProcessing(SessionOf(conn)))
           => UNCHANGED <<procs, pending, handoffs, sessions>>
      /\ (ev'.type = "media" /\ ev'.voiced /\ variant = "basic")
           => /\ ~IsProcessing(SessionOf(conn))
              /\ AssemblerAfter.audioBuffer = Append(Assembler.audioBuffer, ev'.frame)
    ]_vars

\* C1 witness: a frame has been turned away while a request was outstanding, the
\* request has been answered, and a later voiced frame has just been appended.
C1_Witness ==
  /\ variant = "basic"
  /\ caller.dropped
  /\ handoffs >= 1
  /\ pending = << >>
  /\ ev.type = "media" /\ ev.voiced /\ ev.appended
  /\ Assembler.audioBuffer # << >>

\* A processor whose utterance is with the recognition service, or whose reply is
\* still being produced: tokens to come, or sentences not yet synthesized and sent.
InFlight(p) == \E i \in DOMAIN pending : pending[i].proc = p
ReplyInProgress(p) == procs[p].stream # << >> \/ procs[p].synth # << >>

\* C2 (as claimed): from the handoff until '[COMPLETED]' has been delivered and every
\* synthesized buffer has been sent, the session's isProcessing is true.
C2_HeldUntilReplySent ==
  \A p \in DOMAIN procs :
    (InFlight(p) \/ ReplyInProgress(p)) => IsProcessing(activeSessions)

\* C3 (as claimed): at most one processRecording of the call is between its
\* transcribe call and the answer.
C3_AtMostOneInFlight == Len(pending) <= 1

\* C4: the enhanced class never calls transcribe with less than 0.2 s of PCM
\* (3200 bytes, 10 frames); a flush of a shorter buffer leaves isProcessing false,
\* the buffer empty, the assembler idle and no request outstanding.
C4_MinimumDuration ==
  (variant = "enhanced" /\ ev.type = "media" /\ ev.flush # "none") =>
    /\ ev.flush = "handoff" => 10 * ev.bytes >= 2 * BytesPerSecond /\ ev.frames >= 10
    /\ (ev.frames > 0 /\ 10 * ev.bytes < 2 * BytesPerSecond) =>
         /\ ev.flush = "short"
         /\ ~IsProcessing(activeSessions)
         /\ Assembler.audioBuffer = << >>
         /\ ~Assembler.isRecording
         /\ Assembler.silenceCounter = 0
         /\ pending = << >>

\* C4 witness: a buffer of nine frames has just been flushed without a request.
C4_Witness ==
  /\ variant = "enhanced"
  /\ ev.type = "media" /\ ev.flush = "short" /\ ev.frames = 9
  /\ handoffs = 0
  /\ ~Assembler.isRecording

\* C5 (as claimed): while the assembler is Recording, every inbound frame that does
\* not end the recording is appended to audioBuffer.
C5_EveryFrameAppended ==
  [][ (ev'.type = "media" /\ ~ev'.dropped /\ Assembler.isRecording
       /\ ev'.flush = "none")
        => AssemblerAfter.audioBuffer = Append(Assembler.audioBuffer, ev'.frame)
    ]_vars

\* C5 (amended): while the assembler is Recording, an inbound frame is appended
\* exactly when the VAD calls it voiced and, in the enhanced class, its energy is at
\* least energyThreshold; any other frame leaves the buffer as it is, unless it
\* ends the recording.
C5_VoicedFramesAppended ==
  [][ (ev'.type = "media" /\ ~ev'.dropped /\ Assembler.isRecording) =>
        IF ev'.voiced /\ (variant = "basic"
                          \/ FrameNamed(ev'.frame).energy >= energyThreshold)
          THEN AssemblerAfter.audioBuffer = Append(Assembler.audioBuffer, ev'.frame)
          ELSE ev'.flush = "none"
                 => AssemblerAfter.audioBuffer = Assembler.audioBuffer
    ]_vars

\* C5 witness: the enhanced class, Recording with frames buffered, has just taken a
\* frame the VAD called voiced and has not buffered it.
C5_Witness ==
  /\ variant = "enhanced"
  /\ ev.type = "media" /\ ev.wasRecording /\ ev.voiced /\ ~ev.appended
  /\ Assembler.isRecording
  /\ Assembler.audioBuffer # << >>

\* C6 (as claimed): the enhanced class flushes after extendedSilenceThreshold
\* non-voiced frames when more than 50 frames are buffered, and after
\* baseSilenceThreshold otherwise.
C6_SilenceRunByLength ==
  (variant = "enhanced" /\ ev.type = "media" /\ ev.flush # "none") =>
    ev.silence = IF ev.frames > 50 THEN extendedSilenceThreshold
                 ELSE baseSilenceThreshold

\* C7 (as claimed): in a conversation of one utterance (silence, a run of voiced
\* frames, silence) whose buffer passes the minimum duration, the flush hands the
\* utterance to transcribe, no second request is ever made, and when the request
\* has been answered the assembler is idle with isProcessing false.
C7_ExactlyOneHandoff ==
  regime = "talk" =>
    /\ handoffs <= 1
    /\ (ev.type = "media" /\ ev.flush # "none"
        /\ (variant = "basic" \/ 10 * ev.bytes >= 2 * BytesPerSecond))
         => ev.flush = "handoff" /\ handoffs = 1
    /\ ev.type = "transcribed" =>
         /\ ~Assembler.isRecording
         /\ Assembler.audioBuffer = << >>
         /\ Assembler.silenceCounter = 0
         /\ ~IsProcessing(activeSessions)

\* C8: after every frame passed through detect, and after reset, adaptiveThreshold
\* is within [0.5 * threshold, 2 * threshold] (300..1200 for the threshold 600).
C8_ThresholdCorridor ==
  /\ det.threshold = InitialThreshold
  /\ (obs.op \in {"detect", "reset"} =>
        /\ det.adaptiveThreshold >= Fix(300)
        /\ det.adaptiveThreshold <= Fix(1200)
        /\ det.adaptiveThreshold * 2 >= Fix(det.threshold)
        /\ det.adaptiveThreshold <= Fix(det.threshold) * 2)

\* C8 witness: the long-term noise has decayed so far that the lower bound is what
\* sets the threshold.
C8_Witness ==
  /\ obs.op = "detect"
  /\ det.noiseUpdateCounter >= 100
  /\ det.longTermNoise * 4 < Fix(300)
  /\ det.adaptiveThreshold = Fix(300)

\* C9 (as claimed): adaptiveThreshold is within [0.5 * threshold, 2 * threshold] of
\* the current base threshold after any sequence of detect, reset, updateThreshold
\* and calibrateBackgroundNoise.
C9_CorridorAfterAnyOperation ==
  /\ det.adaptiveThreshold * 2 >= Fix(det.threshold)
  /\ det.adaptiveThreshold <= Fix(det.threshold) * 2

\* The raw decisions of the first n results of trace.
RawOf(n) == [i \in 1..n |-> trace[i][1]]

\* C10: after a raw-voiced frame each of the next hangoverTime consecutive raw-silent
\* frames yields the smoothed output voiced, in the current detector (hangoverTime 5)
\* and in the earlier one (hangoverTime 3); and the earlier detector, fresh, fed the
\* raw decisions voiced, voiced, silent, silent, silent returns voiced five times.
C10_HangoverBridging ==
  /\ (regime \in {"mixed", "long"} /\ obs.op = "detect" /\ obs.gap \in 1..hangoverTime)
        => obs.voiced
  /\ (regime = "legacy" /\ obs.op = "detect" /\ obs.gap \in 1..hangoverTime0)
        => obs.voiced
  /\ (regime = "legacy" /\ Len(trace) >= 5
      /\ RawOf(5) = <<TRUE, TRUE, FALSE, FALSE, FALSE>>)
        => \A i \in 1..5 : trace[i][2]

\* C10 witness: the earlier detector has seen voiced, voiced and three silent frames
\* and its hangover counter has run out on the last of them.
C10_Witness ==
  /\ regime = "legacy"
  /\ Len(trace) = 5
  /\ RawOf(5) = <<TRUE, TRUE, FALSE, FALSE, FALSE>>
  /\ det0.hangoverCounter = 0
  /\ obs.gap = hangoverTime0
  /\ obs.voiced

\* C11 (as claimed): once the hangover counter has been used up the next raw-silent
\* frame is smoothed to silence: in the earlier detector (hangoverTime 3) the 4th
\* consecutive raw-silent frame after a raw-voiced one, in the current detector any
\* raw-silent frame later than the longest hangover (hangoverTime + 2).
C11_HangoverEnd ==
  /\ (regime = "legacy" /\ obs.op = "detect" /\ obs.gap = hangoverTime0 + 1)
        => ~obs.voiced
  /\ (regime \in {"mixed", "long"} /\ obs.op = "detect" /\ obs.gap = hangoverTime + 3)
        => ~obs.voiced

\* The hangover counter of the detector the regime drives, before and after a step.
HangoverBefore == IF regime = "legacy" THEN det0.hangoverCounter ELSE det.hangoverCounter
HangoverAfter == IF regime = "legacy" THEN det0'.hangoverCounter ELSE det'.hangoverCounter

\* What a raw-silent frame does to the counter: one less if positive, else still 0.
SilentFrameCounts ==
  /\ HangoverAfter = (IF HangoverBefore > 0 THEN HangoverBefore - 1 ELSE 0)
  /\ HangoverAfter >= 0

\* C12 (as claimed): on every raw-silent frame hangoverCounter decreases by exactly 1
\* if it was positive and stays 0 otherwise; on every raw-voiced frame it is reset to
\* one fixed value (hangoverTime of the detector); it is never negative.
C12_HangoverFixedReset ==
  [][ obs'.op = "detect" =>
        IF obs'.raw
          THEN HangoverAfter = (IF regime = "legacy" THEN hangoverTime0 ELSE hangoverTime)
          ELSE SilentFrameCounts ]_vars

\* C12 (amended): as above on raw-silent frames; on a raw-voiced frame the earlier
\* detector resets the counter to hangoverTime (3) and the current detector resets it
\* to hangoverTime (5), plus 2 when the frame's voiceConfidence is above 0.8.
C12_HangoverResetByConfidence ==
  [][ obs'.op = "detect" =>
        IF obs'.raw
          THEN HangoverAfter =
                 (IF regime = "legacy" THEN hangoverTime0
                  ELSE hangoverTime + (IF FlGreater(det'.voiceConfidence, 80) THEN 2 ELSE 0))
          ELSE SilentFrameCounts ]_vars

\* C12 witness: a raw-voiced frame of high confidence has set the counter of the
\* current detector to hangoverTime + 2.
C12_Witness ==
  /\ regime \in {"mixed", "long"}
  /\ obs.op = "detect"
  /\ obs.raw
  /\ FlGreater(det.voiceConfidence, 80)
  /\ det.hangoverCounter = hangoverTime + 2

\* The decision ring of the detector the regime drives, before and after a step, and
\* its capacity maxRecent.
RingBefore == IF regime = "legacy" THEN det0.recentVoices ELSE det.recentVoices
RingAfter == IF regime = "legacy" THEN det0'.recentVoices ELSE det'.recentVoices
maxRecent == IF regime = "legacy" THEN smoothingWindow0 ELSE smoothingWindow

\* C13: recentVoices never holds more than maxRecent entries; a detect call on a
\* ring that is not full appends one entry behind the others, and on a full ring it
\* evicts exactly the oldest entry and keeps the others in their order in front of
\* the new one.
C13_RingBounded ==
  [][ /\ Len(RingAfter) <= maxRecent
      /\ obs'.op = "detect" =>
           IF Len(RingBefore) < maxRecent
             THEN /\ Len(RingAfter) = Len(RingBefore) + 1
                  /\ SubSeq(RingAfter, 1, Len(RingBefore)) = RingBefore
             ELSE /\ Len(RingAfter) = maxRecent
                  /\ SubSeq(RingAfter, 1, maxRecent - 1) = Tail(RingBefore) ]_vars

\* C13 witness: the earlier detector has taken one frame more than its ring holds;
\* the ring is full and its oldest and newest entries differ.
C13_Witness ==
  /\ regime = "legacy"
  /\ obs.op = "detect"
  /\ Len(trace) = smoothingWindow0 + 1
  /\ Len(det0.recentVoices) = smoothingWindow0
  /\ det0.recentVoices[1] # det0.recentVoices[smoothingWindow0]

(***************************************************************************)
(* The mu-law codec of src/utils/audioUtils.js and src/unnamed/part_004.   *)
(* JavaScript's bit operators on the int32 values that occur here:         *)
(* x << n and x >> n on non-negative x, x & 0x0F as x % 16, and ~x as      *)
(* -x - 1; a value stored into a Buffer keeps its low 8 bits.              *)
(***************************************************************************)
MULAW_BIAS == 132
MULAW_MAX == 8191

Shl(x, n) == x * 2^n
Shr(x, n) == x \div 2^n
BitNot(x) == -x - 1
ToByte(x) == ((x % 256) + 256) % 256

\* The exponent the loop of pcmToMulawSample picks for the biased magnitude.
SegmentOf(biased) ==
  LET fits == {e \in 0..7 : biased <= Shl(31, e + 3)}
  IN  IF fits = {} THEN 7 ELSE CHOOSE e \in fits : \A o \in fits : e <= o

\* The biased, clamped magnitude of a sample.
Biased(pcm) == Min((IF pcm < 0 THEN -pcm ELSE pcm) + MULAW_BIAS, MULAW_MAX)

\* pcmToMulawSample(pcm): the int32 value returned.
pcmToMulawSample(pcm) ==
  LET sign     == IF pcm < 0 THEN 128 ELSE 0
      exponent == SegmentOf(Biased(pcm))
      mantissa == Shr(Biased(pcm), exponent + 3) % 16
  IN  BitNot(sign + Shl(exponent, 4) + mantissa)

\* The fields of ~mulaw for a byte: sign bit, exponent and mantissa.
Fields(mulaw) ==
  LET inv == ToByte(BitNot(mulaw))
  IN  [sign |-> inv \div 128, exponent |-> (inv \div 16) % 8, mantissa |-> inv % 16]

\* mulawToPcmSample(mulaw) of src/utils/audioUtils.js
mulawToPcmSample(mulaw) ==
  LET f      == Fields(mulaw)
      sample == Shl(f.mantissa, f.exponent + 3) + MULAW_BIAS
  IN  IF f.sign = 1 THEN -sample ELSE sample

\* mulawToPcmSample(mulaw) of src/unnamed/part_004
mulawToPcmSample4(mulaw) ==
  LET f      == Fields(mulaw)
      sample == IF f.exponent = 0
                  THEN Shl(f.mantissa, 1) + MULAW_BIAS
                  ELSE Shl(f.mantissa + 16, f.exponent + 3) + MULAW_BIAS
      result == IF f.sign = 1 THEN -sample ELSE sample
  IN  Max(-32768, Min(32767, result))

\* The samples put through the codec: every int16 value.
Int16 == -32768..32767
Decoders == {"audioUtils", "part_004"}

\* pcmToMulaw: one sample encoded and stored as a byte of the Buffer
Encode ==
  /\ regime = "codec"
  /\ pure.fn = "sample"
  /\ pure' = [fn |-> "encoded", x |-> pure.x,
              exponent |-> SegmentOf(Biased(pure.x)),
              byte |-> ToByte(pcmToMulawSample(pure.x))]
  /\ UNCHANGED <<regime, node, vadVars, appVars>>

\* mulawToPcm: the byte decoded by one of the two decoders
Decode(d) ==
  /\ regime = "codec"
  /\ pure.fn = "encoded"
  /\ pure' = [fn |-> "decoded", x |-> pure.x, exponent |-> pure.exponent,
              byte |-> pure.byte, decoder |-> d,
              y |-> IF d = "audioUtils" THEN mulawToPcmSample(pure.byte)
                    ELSE mulawToPcmSample4(pure.byte)]
  /\ UNCHANGED <<regime, node, vadVars, appVars>>

InitCodec ==
  /\ InitState("codec")
  /\ \E x \in Int16 : pure = [fn |-> "sample", x |-> x]

NextCodec == Encode \/ \E d \in Decoders : Decode(d)

SpecCodec == InitCodec /\ [][NextCodec]_vars

\* C14 (as claimed): for every int16 x the decoded value of the encoded byte differs
\* from x by at most one quantization step 2^(exponent + 3) of the segment x was
\* encoded in.
C14_RoundTrip ==
  pure.fn = "decoded" =>
    /\ pure.y - pure.x <= 2^(pure.exponent + 3)
    /\ pure.x - pure.y <= 2^(pure.exponent + 3)

(***************************************************************************)
(* WAV framing: createWavBuffer and createEnhancedWavBuffer of             *)
(* src/services/audioProcessor.js. A Buffer is a sequence of bytes; the    *)
(* byte at offset k of the source is element k + 1.                        *)
(***************************************************************************)
\* Buffer.alloc(n)
Alloc(n) == [i \in 1..n |-> 0]

\* The bytes written at an offset; what does not fit is not written.
WriteBytes(buf, bytes, off) ==
  [i \in 1..Len(buf) |-> IF i > off /\ i <= off + Len(bytes) THEN bytes[i - off] ELSE buf[i]]

UInt32LE(v) == <<v % 256, (v \div 256) % 256, (v \div 65536) % 256, (v \div 16777216) % 256>>
UInt16LE(v) == <<v % 256, (v \div 256) % 256>>

\* buf.readUInt32LE(off)
readUInt32LE(buf, off) ==
  buf[off + 1] + 256 * buf[off + 2] + 65536 * buf[off + 3] + 16777216 * buf[off + 4]

\* The character codes of 'RIFF', 'WAVE', 'fmt ' and 'data'.
Ascii(tag) ==
  CASE tag = "RIFF" -> <<82, 73, 70, 70>>
    [] tag = "WAVE" -> <<87, 65, 86, 69>>
    [] tag = "fmt " -> <<102, 109, 116, 32>>
    [] tag = "data" -> <<100, 97, 116, 97>>

\* Faulty variant of RiffChunkSize: the 36 header bytes after the field are not counted.
RiffChunkSize_DataOnly(length) == length

\* The value of the RIFF chunk-size field: 36 + length
RiffChunkSize(length) == 36 + length

\* The fmt chunk and the data chunk header, written into a buffer that starts with
\* the RIFF header.
WriteChunks(buf, length, sampleRate) ==
  LET b1 == WriteBytes(buf, Ascii("fmt "), 12)
      b2 == WriteBytes(b1, UInt32LE(16), 16)
      b3 == WriteBytes(b2, UInt16LE(1), 20)
      b4 == WriteBytes(b3, UInt16LE(1), 22)
      b5 == WriteBytes(b4, UInt32LE(sampleRate), 24)
      b6 == WriteBytes(b5, UInt32LE(sampleRate * 2), 28)
      b7 == WriteBytes(b6, UInt16LE(2), 32)
      b8 == WriteBytes(b7, UInt16LE(16), 34)
      b9 == WriteBytes(b8, Ascii("data"), 36)
  IN  WriteBytes(b9, UInt32LE(length), 40)

\* createWavBuffer(pcmData, sampleRate)
createWavBuffer(pcmData, sampleRate) ==
  LET length == Len(pcmData)
      b1 == WriteBytes(Alloc(44 + length), Ascii("RIFF"), 0)
      b2 == WriteBytes(b1, UInt32LE(RiffChunkSize(length)), 4)
      b3 == WriteBytes(b2, Ascii("WAVE"), 8)
  IN  WriteBytes(WriteChunks(b3, length, sampleRate), pcmData, 44)

\* createEnhancedWavBuffer(pcmData, sampleRate)
createEnhancedWavBuffer(pcmData, sampleRate) ==
  LET length == Len(pcmData)
      b1 == WriteBytes(Alloc(44 + length), Ascii("RIFF"), 0)
      b2 == WriteBytes(b1, UInt32LE(RiffChunkSize(length)), 4)
      b3 == WriteBytes(b2, Ascii("WAVE"), 8)
  IN  WriteBytes(WriteChunks(b3, length, sampleRate), pcmData, 44)

\* The payloads framed: none, a single byte, and one to MaxWavFrames frames, filled
\* with a byte pattern.
MaxWavFrames == 2
WavLengths == {0, 1} \cup {k * frameSize : k \in 1..MaxWavFrames}
Pattern(length, seed, stride) == [i \in 1..length |-> (seed + (i - 1) * stride) % 256]
SampleRates == {8000, 16000}

\* createWavBuffer / createEnhancedWavBuffer applied to the payload
CreateWav(fn, sampleRate) ==
  /\ regime = "wav"
  /\ pure.fn = "payload"
  /\ pure' = [fn |-> fn, payload |-> pure.payload, sampleRate |-> sampleRate,
              wav |-> IF fn = "createWavBuffer"
                        THEN createWavBuffer(pure.payload, sampleRate)
                        ELSE createEnhancedWavBuffer(pure.payload, sampleRate)]
  /\ UNCHANGED <<regime, node, vadVars, appVars>>

InitWav ==
  /\ InitState("wav")
  /\ \E length \in WavLengths, seed \in {0, 1, 128, 255}, stride \in {0, 1, 3, 255} :
        pure = [fn |-> "payload", payload |-> Pattern(length, seed, stride)]

NextWav ==
  \E fn \in {"createWavBuffer", "createEnhancedWavBuffer"}, rate \in SampleRates :
     CreateWav(fn, rate)

SpecWav == InitWav /\ [][NextWav]_vars

\* C15: for a payload of L bytes both functions return a buffer of 44 + L bytes
\* whose field at offset 4 is L + 36, whose field at offset 40 is L and whose bytes
\* from offset 44 on are the payload.
C15_WavFraming ==
  pure.fn \in {"createWavBuffer", "createEnhancedWavBuffer"} =>
    LET L == Len(pure.payload)
    IN  /\ Len(pure.wav) = 44 + L
        /\ readUInt32LE(pure.wav, 4) = L + 36
        /\ readUInt32LE(pure.wav, 40) = L
        /\ \A i \in 1..L : pure.wav[44 + i] = pure.payload[i]

\* C15 witness: a payload of two frames with varying bytes has been framed by
\* createEnhancedWavBuffer.
C15_Witness ==
  /\ pure.fn = "createEnhancedWavBuffer"
  /\ Len(pure.payload) = 2 * frameSize
  /\ pure.payload[1] # pure.payload[2]
  /\ readUInt32LE(pure.wav, 4) = 2 * frameSize + 36
  /\ pure.wav[44 + 2 * frameSize] = pure.payload[2 * frameSize]

\* The session the table holds for the call before a step, and its processor.
TableSession == sessions[activeSessions]
TableProcessor == procs[TableSession.processor]
TableProcessorAfter == procs'[TableSession.processor]

\* C16 (as claimed): creating a session for a call that already has one, by
\* createSession or by a second 'start', leaves the existing session in the table
\* unchanged, with its processor and that processor's buffered utterance, and the
\* socket keeps feeding that processor.
C16_CreationIdempotent ==
  [][ (ev'.type \in {"start", "createSession"} /\ activeSessions # 0)
        => /\ activeSessions' = activeSessions
           /\ sessions'[activeSessions] = TableSession
           /\ TableProcessorAfter = TableProcessor
           /\ conn'.audioProcessor = conn.audioProcessor ]_vars

\* C17: a sweep at time t deletes the session that createSession made at time T
\* when t - T is above SESSION_TIMEOUT_MS and leaves the table and the session as
\* they are when t - T is below it, whatever isProcessing is and whatever frames
\* have arrived.
C17_SweepByAge ==
  [][ (ev'.type = "sweep" /\ activeSessions # 0 /\ TableSession.createdAt # << >>)
        => /\ ev'.now - TableSession.createdAt[1] > SESSION_TIMEOUT_MS
                => activeSessions' = 0
           /\ ev'.now - TableSession.createdAt[1] < SESSION_TIMEOUT_MS
                => (activeSessions' = activeSessions /\ sessions' = sessions) ]_vars

\* C17 witness: a sweep has just removed a session that createSession made and that
\* was processing an utterance of frames received since.
C17_Witness ==
  /\ ev.type = "sweep"
  /\ ev.removed
  /\ activeSessions = 0
  /\ Len(sessions) = 2
  /\ sessions[2].createdAt # << >>
  /\ sessions[2].isProcessing
  /\ \E i \in DOMAIN pending : pending[i].session = 2

\* The fields of a detector the smoother and the adaptive threshold keep.
SmootherAndThreshold(v) ==
  <<v.recentVoices, v.consecutiveVoiced, v.consecutiveSilence, v.hangoverCounter,
    v.backgroundNoise, v.longTermNoise, v.adaptiveThreshold, v.noiseUpdateCounter>>

\* C18 (as claimed): after deleteSession on an existing session the table has no
\* entry for the call, the session's processor has an empty audioBuffer, isRecording
\* false and silenceCounter 0, and its detector's smoothing and threshold state is
\* as in a new detector.
C18_DeleteCascades ==
  [][ ev'.type = "deleteSession"
        => /\ activeSessions' = 0
           /\ TableProcessorAfter.audioBuffer = << >>
           /\ ~TableProcessorAfter.isRecording
           /\ TableProcessorAfter.silenceCounter = 0
           /\ SmootherAndThreshold(TableProcessorAfter.vad) = SmootherAndThreshold(NewVAD)
    ]_vars

\* C19 (as claimed): every step that removes the session of the call from the table
\* ('stop', 'close', sweep) leaves that session's processor with an empty
\* audioBuffer and isRecording false.
C19_RemovalReleasesBuffer ==
  [][ (activeSessions # 0 /\ activeSessions' = 0)
        => /\ TableProcessorAfter.audioBuffer = << >>
           /\ ~TableProcessorAfter.isRecording ]_vars

\* C20 (as claimed): a media frame that arrives when the table has no session for
\* the socket's call is dropped: it is not passed to processAudio.
C20_UnknownCallDropped ==
  (ev.type = "media" /\ SessionOf(conn) = 0) => ev.dropped

\* C21 (as claimed): when the recognition request fails or is answered without a
\* transcription, processRecording makes no dialogue request: no reply is begun on
\* the processor (no token to come, no listener, no sentence sent to synthesis, no
\* audio sent), isProcessing is false and the assembler is idle with an empty buffer.
C21_FailSilent ==
  (ev.type = "transcribed" /\ ev.response \in {"error", "empty"}) =>
    /\ ~ev.dialogue
    /\ Assembler.stream = << >>
    /\ Assembler.listeners = 0
    /\ Assembler.synth = << >>
    /\ Assembler.sent = << >>
    /\ ~IsProcessing(activeSessions)
    /\ ~Assembler.isRecording
    /\ Assembler.audioBuffer = << >>
    /\ Assembler.silenceCounter = 0

\* C22 (as claimed): an 'error' of the dialogue WebSocket during a reply is handled
\* inside the call's worker: the process keeps running and the call's socket stays
\* open for further frames.
C22_DialogueErrorHandled ==
  ev.type = "ragError" => node.alive /\ conn.open

\* C23: in the enhanced class, when the silence run ends a recording whose buffer has
\* at least 0.2 s and at most maxAudioLength bytes and hasVoiceInWav says no for it,
\* transcribe is not called (no request is added) although every buffered frame was
\* accepted by the per-frame VAD; no reply is begun, isProcessing is false and the
\* assembler is idle with an empty buffer.
C23_ConfirmationRejects ==
  [][ ( /\ variant = "enhanced"
        /\ ev'.type = "media" /\ ~ev'.dropped /\ ev'.flush # "none"
        /\ ~TooShort(ev'.bytes) /\ ev'.bytes <= maxAudioLength
        /\ ~hasVoiceInWav(Assembler.audioBuffer, VoiceThreshold(ev'.bytes)) )
      => /\ pending' = pending
         /\ handoffs' = handoffs
         /\ AssemblerAfter.stream = Assembler.stream
         /\ AssemblerAfter.listeners = Assembler.listeners
         /\ AssemblerAfter.synth = Assembler.synth
         /\ ~IsProcessing(activeSessions)'
         /\ ~AssemblerAfter.isRecording
         /\ AssemblerAfter.audioBuffer = << >>
         /\ AssemblerAfter.silenceCounter = 0
    ]_vars

\* C23 witness: a hum of 20 frames (0.4 s), each accepted by the per-frame VAD and
\* buffered, has just been rejected by the confirmation; nothing was handed off.
C23_Witness ==
  /\ regime = "hum"
  /\ ev.type = "media" /\ ev.flush = "novoice"
  /\ ev.frames = 20
  /\ handoffs = 0
  /\ pending = << >>
  /\ ~Assembler.isRecording
  /\ ~IsProcessing(activeSessions)

\* The detector after detect has been applied, one after the other and in the order
\* of the log, to the frames of the log that went through processAudio.  (The
\* comparison has each intermediate detector evaluated before the next frame.)
RECURSIVE DetectAll(_, _)
DetectAll(v, log) ==
  IF log = << >> THEN v
  ELSE LET w == IF log[1].processed THEN detect(v, FrameNamed(log[1].frame)).vad ELSE v
       IN  IF w = w THEN DetectAll(w, Tail(log)) ELSE v

ScorerThresholds == {Fix(300), Fix(600), Fix(1200)}
ScorerNoises == {Fix(InitialNoise), Fix(1000)}
ScorerFeatures ==
  [ rms : {0, 430, 700, 3000},
    zcr : {5, 20, 80, 200, 400},
    spectralCentroid : {100, 300, 1000, 3000, 4000},
    spectralBalance : {20, 50, 90},
    peakLevel : {100, 5000, 30000},
    energyVariance : {[num |-> 0, den |-> 1], [num |-> 1000, den |-> 1],
                      [num |-> 20000, den |-> 1]} ]

\* advancedVoiceDetection(features)
Score ==
  /\ regime = "scorer"
  /\ pure.fn = "features"
  /\ LET v == [NewVAD EXCEPT !.adaptiveThreshold = pure.adaptiveThreshold,
                             !.backgroundNoise = pure.backgroundNoise]
         d == advancedVoiceDetection(v, pure.features)
     IN  pure' = [pure EXCEPT !.fn = "scored",
                              !.voiceScore = d.vad.voiceActivityStrength,
                              !.voiceConfidence = d.vad.voiceConfidence,
                              !.voiced = d.voiced]
  /\ UNCHANGED <<regime, node, vadVars, appVars>>

InitScorer ==
  /\ InitState("scorer")
  /\ \E t \in ScorerThresholds, n \in ScorerNoises, f \in ScorerFeatures :
       pure = [fn |-> "features", adaptiveThreshold |-> t, backgroundNoise |-> n,
               features |-> f, voiceScore |-> 0, voiceConfidence |-> <<0, 0>>,
               voiced |-> FALSE]

NextScorer == Score

SpecScorer == InitScorer /\ [][NextScorer]_vars

\* The checks of the scorer on the features of pure, and the credits of the passed
\* ones: score points and hundredths of confidence.
EnergyFull == Fix(pure.features.rms) > pure.adaptiveThreshold
EnergyPart == ~EnergyFull /\ Fix(pure.features.rms) * 10 > pure.adaptiveThreshold * 7
ZcrBase == pure.features.zcr > 10 /\ pure.features.zcr < 350
ZcrBonus == ZcrBase /\ pure.features.zcr > 30 /\ pure.features.zcr < 150
CentroidBase == pure.features.spectralCentroid > 150 /\ pure.features.spectralCentroid < 3500
CentroidBonus ==
  CentroidBase /\ pure.features.spectralCentroid > 400 /\ pure.features.spectralCentroid < 2000
BalanceCheck == pure.features.spectralBalance > 30 /\ pure.features.spectralBalance < 80
PeakCheck == pure.features.peakLevel > minEnergy /\ pure.features.peakLevel < maxEnergy
VarianceCheck ==
  /\ pure.features.energyVariance.num > 100 * pure.features.energyVariance.den
  /\ pure.features.energyVariance.num < 10000 * pure.features.energyVariance.den
SustainedCheck == Fix(pure.features.rms) > pure.backgroundNoise * 3

Credit(check, points) == IF check THEN points ELSE 0

CreditedScore ==
  Credit(EnergyFull, 4) + Credit(EnergyPart, 2) + Credit(ZcrBase, 3) + Credit(ZcrBonus, 1)
  + Credit(CentroidBase, 2) + Credit(CentroidBonus, 1) + Credit(BalanceCheck, 2)
  + Credit(PeakCheck, 1) + Credit(VarianceCheck, 1) + Credit(SustainedCheck, 1)

CreditedConfidence ==
  Credit(EnergyFull, 30) + Credit(EnergyPart, 10) + Credit(ZcrBase, 20)
  + Credit(ZcrBonus, 10) + Credit(CentroidBase, 15) + Credit(CentroidBonus, 10)
  + Credit(BalanceCheck, 15) + Credit(PeakCheck, 5) + Credit(VarianceCheck, 5)
  + Credit(SustainedCheck, 5)

\* C25: the scorer's confidence is the sum of the confidence credits of the passed
\* checks, capped at 1.0, and so within [0, 1]; its score is the sum of their score
\* credits (energy 4 or 2, never both; a bonus only with its base check); and its
\* decision is voiced exactly when confidence > 0.7 and score >= 6, or
\* confidence <= 0.7 and score >= 8.
C25_ScorerDecision ==
  pure.fn = "scored" =>
    /\ pure.voiceConfidence[1] = Min(100, CreditedConfidence)
    /\ pure.voiceConfidence[1] >= 0
    /\ ~FlGreater(pure.voiceConfidence, 100)
    /\ pure.voiceScore = CreditedScore
    /\ pure.voiced <=>
         \/ FlGreater(pure.voiceConfidence, 70) /\ pure.voiceScore >= 6
         \/ ~FlGreater(pure.voiceConfidence, 70) /\ pure.voiceScore >= 8

\* C25 witness: a frame whose energy is between 0.7 and 1.0 times adaptiveThreshold
\* and whose zero-crossing rate earns the bonus has scored 7 with a confidence of
\* at most 0.7 and is not voiced.
C25_Witness ==
  /\ pure.fn = "scored"
  /\ EnergyPart
  /\ ZcrBonus
  /\ pure.voiceScore = 7
  /\ ~FlGreater(pure.voiceConfidence, 70)
  /\ ~pure.voiced

\* The threshold of the vote, in tenths, by the precedence of the claim.
VoteThreshold(v) ==
  CASE v.hangoverCounter > 0 -> 2
    [] v.hangoverCounter <= 0 /\ v.consecutiveVoiced = 0 /\ v.consecutiveSilence > 10 -> 7
    [] v.hangoverCounter <= 0 /\ v.consecutiveVoiced >= 3 -> 3
    [] OTHER -> 5

\* C26: after detect the smoothed output is voiced exactly when the voiced share of
\* the ring's weight, each entry weighing max(0.1, confidence), is at least the
\* threshold that the counters left by this frame select: 0.2 while hangoverCounter
\* is positive, else 0.7 with no voiced frame and more than 10 silent ones in a row,
\* else 0.3 from 3 voiced frames in a row, else 0.5; and the weight of the ring is
\* never zero.
C26_VoteThreshold ==
  (regime \in {"mixed", "long"} /\ obs.op = "detect") =>
    /\ det.recentVoices # << >>
    /\ \A i \in DOMAIN det.recentVoices : VoteWeight(det.recentVoices[i]) >= 10
    /\ TotalWeight(det.recentVoices) > 0
    /\ obs.voiced <=>
         VoicedWeight(det.recentVoices) * 10
           >= VoteThreshold(det) * TotalWeight(det.recentVoices)

\* C26 witness: during the hangover the voiced share of the ring is between 0.2 and
\* 0.5 and the output is voiced.
C26_Witness ==
  /\ regime \in {"mixed", "long"}
  /\ obs.op = "detect"
  /\ det.hangoverCounter > 0
  /\ VoicedWeight(det.recentVoices) * 10 < 5 * TotalWeight(det.recentVoices)
  /\ obs.voiced

\* C27 (as claimed): in the enhanced class a recording of more than maxAudioLength
\* bytes is not discarded for its length: its flush goes on to the whole-utterance
\* confirmation, which either hands it to transcribe or rejects it for lack of voice.
C27_TruncatedContinues ==
  ( /\ variant = "enhanced"
    /\ ev.type = "media" /\ ~ev.dropped /\ ev.flush # "none"
    /\ ev.bytes > maxAudioLength )
  => ev.flush \in {"handoff", "novoice"}

\* The request of the session is over: isProcessing is false and the assembler is
\* idle.
ProcessingOver ==
  /\ activeSessions # 0
  /\ ~IsProcessing(activeSessions)
  /\ conn.audioProcessor # 0
  /\ ~Assembler.isRecording
  /\ Assembler.audioBuffer = << >>
  /\ Assembler.silenceCounter = 0

\* C28 (as claimed): if every request to the recognition service is answered in the
\* end, isProcessing = true is always followed by isProcessing = false for that
\* session, with the assembler idle.
C28_ProcessingEnds == IsProcessing(activeSessions) ~> ProcessingOver

\* C29 (as claimed): after a run of the sweep the table holds no session that was
\* entered more than SESSION_TIMEOUT_MS before it, whether createSession or the
\* 'start' handler entered it.
C29_SweepLeavesNoOld ==
  (regime = "table" /\ ev.type = "sweep" /\ activeSessions # 0) =>
    ev.now - sessions[activeSessions].since <= SESSION_TIMEOUT_MS

C31_BlendEvery50Frames ==
  (regime = "tracker" /\ obs.op = "detect") => obs.blends = vframes \div 50

\* C31 (amended): noiseUpdateCounter counts the frames that did not take the early
\* return for very loud frames; after N frames of which L took it, longTermNoise has
\* been blended floor((N - L) / 50) times, and a frame without a blend leaves
\* longTermNoise as it was.
C31_BlendEvery50Counted ==
  [][ (regime = "tracker" /\ obs'.op = "detect") =>
        /\ det'.noiseUpdateCounter = vframes' - obs'.loud
        /\ obs'.blends = (vframes' - obs'.loud) \div 50
        /\ obs'.blends = obs.blends => det'.longTermNoise = det.longTermNoise
        /\ obs'.blends # obs.blends =>
             det'.longTermNoise = (det.longTermNoise * 9 + det'.backgroundNoise) \div 10
    ]_vars

\* C31 witness: 100 frames, one of them very loud, and longTermNoise has been
\* blended once.
C31_Witness ==
  /\ regime = "tracker"
  /\ obs.op = "detect"
  /\ vframes = 100
  /\ obs.loud = 1
  /\ obs.blends = 1
  /\ det.longTermNoise # NewVAD.longTermNoise

\* C32: detect called without a frame or with a frame shorter than frameSize returns
\* not voiced and leaves every field of the detector as it was, in both detectors.
C32_ShortFrameIgnored ==
  [][ (regime \in {"mixed", "legacy"} /\ obs'.op = "short") =>
        /\ ~obs'.voiced
        /\ ~obs'.raw
        /\ det' = det
        /\ det0' = det0
        /\ trace' = trace
    ]_vars

\* C32 witness: a call without a full frame has just returned while the hangover of
\* an earlier voiced frame is running and the ring and the rms history have entries.
C32_Witness ==
  /\ regime = "mixed"
  /\ obs.op = "short"
  /\ det.hangoverCounter > 0
  /\ det.recentVoices # << >>
  /\ det.recentEnergies # << >>
  /\ det.noiseUpdateCounter > 0

\* C33: resetRecording, which follows every flush (at once when processRecording
\* returns without a request, and when transcribe has answered otherwise), empties
\* audioBuffer, clears isRecording, silenceCounter and the filter memory (dcOffset,
\* lastSample, previousSamples), and leaves the detector of the call as detect left
\* it: thresholds, counter, ring, consecutive counters and hangover.
C33_FlushKeepsDetector ==
  [][ LET cleared == /\ AssemblerAfter.audioBuffer = << >>
                     /\ ~AssemblerAfter.isRecording
                     /\ AssemblerAfter.silenceCounter = 0
                     /\ AssemblerAfter.filter = "zero"
      IN  /\ ev'.type = "transcribed" =>
               cleared /\ AssemblerAfter.vad = Assembler.vad
          /\ (ev'.type = "media" /\ ev'.flush \in {"short", "error", "novoice"}) =>
               /\ cleared
               /\ AssemblerAfter.vad = detect(Assembler.vad, FrameNamed(ev'.frame)).vad
    ]_vars

\* C33 witness: the enhanced class has just reset the recording after a request was
\* answered; its detector has a full ring, a moved noise floor and a counter above 0.
C33_Witness ==
  /\ variant = "enhanced"
  /\ ev.type = "transcribed"
  /\ Assembler.filter = "zero"
  /\ Assembler.audioBuffer = << >>
  /\ Len(Assembler.vad.recentVoices) = maxRecent
  /\ Assembler.vad.backgroundNoise # NewVAD.backgroundNoise
  /\ Assembler.vad.noiseUpdateCounter > 0

\* C34: whatever checks of the scorer pass, a confidence above 0.7 comes with a score
\* of at least 8; so advancedVoiceDetection is voiced exactly when the score is at
\* least 8, and no input has a score of 6 or 7 with a confidence above 0.7.
C34_LowerRequirementIdle ==
  pure.fn = "scored" =>
    /\ FlGreater(pure.voiceConfidence, 70) => pure.voiceScore >= 8
    /\ pure.voiced <=> pure.voiceScore >= 8
    /\ ~(pure.voiceScore \in {6, 7} /\ FlGreater(pure.voiceConfidence, 70))

\* C34 witness: the score of 7 with the highest confidence, 0.55 (zero-crossing rate
\* and centroid with their bonuses), is not voiced; the lower requirement would
\* have accepted it.
C34_Witness ==
  /\ pure.fn = "scored"
  /\ pure.voiceScore = 7
  /\ pure.voiceConfidence[1] = 55
  /\ ZcrBonus /\ CentroidBonus
  /\ ~pure.voiced

\* C35 (as claimed): a connection that has received 'start' and neither 'stop' nor
\* 'close' finds its own session under its callSid, also after an earlier connection
\* of the same call has closed.
C35_OwnSessionFound ==
  (regime = "reconnect" /\ conn.open /\ conn.callSid /\ ~conn.stopped) =>
    /\ activeSessions # 0
    /\ sessions[activeSessions].processor = conn.audioProcessor

\* C36 (as claimed): a call's RAGService has at most one 'token' listener at any
\* time, also when a second utterance is transcribed before '[COMPLETED]' of the
\* reply to the first has arrived.
C36_OneTokenListener ==
  conn.audioProcessor # 0 => Assembler.listeners <= 1

\* C37 (as claimed): the audio of the sentences of one reply is sent on the socket in
\* the order in which the sentences were passed to synthesize, whatever the order
\* in which their buffers arrive: the second sentence (ending in "you.") is never
\* sent before the first (ending in "there.").
C37_SentenceOrder ==
  (regime = "talk" /\ conn.audioProcessor # 0) =>
    \A i, j \in DOMAIN Assembler.sent :
      i < j => ~( /\ Assembler.sent[i][Len(Assembler.sent[i])] = "you."
                  /\ Assembler.sent[j][Len(Assembler.sent[j])] = "there." )

\* C38 (as claimed): no reply text is lost.  With one 'token' listener, every
\* sentence passed to synthesize (awaiting its buffer, or already sent) holds all
\* the tokens received for it, so it is one of the two whole sentences of the
\* reply; sending a buffer does not discard the text buffered for the next one.
C38_NoTextLost ==
  (regime = "talk" /\ conn.audioProcessor # 0) =>
    \A s \in {Assembler.synth[i] : i \in DOMAIN Assembler.synth}
             \cup {Assembler.sent[i] : i \in DOMAIN Assembler.sent} :
      s \in {SubSeq(ReplyTokens, 1, 2), SubSeq(ReplyTokens, 3, 4)}

\* C39: in the enhanced AudioProcessor isProcessingQuery is false in every reachable
\* state, so the guard at the start of processAudio drops no frame, also while a
\* reply is being played back.
C39_QueryFlagNeverSet ==
  variant = "enhanced" => \A p \in DOMAIN procs : ~procs[p].isProcessingQuery

\* A frame has gone through the enhanced processAudio while the reply of the
\* processor was still being spoken.
C39_Witness ==
  /\ variant = "enhanced"
  /\ conn.audioProcessor # 0
  /\ ev.type = "media" /\ ~ev.dropped
  /\ Assembler.sent # << >>
  /\ ReplyInProgress(conn.audioProcessor)

\* The assembler fields of a processor between frames: a silence count only while
\* recording, no buffered audio unless recording, and in the basic class a
\* recording exactly when audio is buffered.
AssemblerShape(p) ==
  /\ p.silenceCounter > 0 => p.isRecording
  /\ ~p.isRecording => p.audioBuffer = << >>
  /\ variant = "basic" => (p.isRecording <=> p.audioBuffer # << >>)

\* A non-voiced frame that goes through processAudio while nothing is recorded
\* leaves audioBuffer, isRecording and silenceCounter as they were.
IdleFrameChangesNothing ==
  (ev'.type = "media" /\ ~ev'.dropped /\ ~ev'.voiced /\ ~ev'.wasRecording) =>
    /\ AssemblerAfter.audioBuffer = Assembler.audioBuffer
    /\ AssemblerAfter.isRecording = Assembler.isRecording
    /\ AssemblerAfter.silenceCounter = Assembler.silenceCounter

\* C40 (as claimed): between frames every processor has the assembler shape and a
\* silenceCounter below the silence-run threshold in force, and a non-voiced frame
\* changes nothing while isRecording is false.
C40_AssemblerInvariants ==
  [][ /\ \A p \in DOMAIN procs' :
           /\ AssemblerShape(procs'[p])
           /\ procs'[p].silenceCounter < DynamicThreshold(variant, procs'[p])
      /\ IdleFrameChangesNothing ]_vars

\* C40 (amended): the same, with silenceCounter below the threshold in force
\* whenever no flush of the processor is waiting for transcribe: the frame on which
\* the count reaches the threshold starts processRecording, and the count is reset
\* only when processRecording has returned.
C40_AssemblerInvariantsOutsideFlush ==
  [][ /\ \A p \in DOMAIN procs' :
           /\ AssemblerShape(procs'[p])
           /\ (\A i \in DOMAIN pending' : pending'[i].proc # p)
                => procs'[p].silenceCounter < DynamicThreshold(variant, procs'[p])
      /\ IdleFrameChangesNothing ]_vars

\* A flush is waiting for transcribe with the count at the threshold in force, and
\* the frame that started it went through processAudio.
C40_Witness ==
  /\ conn.audioProcessor # 0
  /\ InFlight(conn.audioProcessor)
  /\ ev.type = "media" /\ ev.flush = "handoff"
  /\ Assembler.silenceCounter = DynamicThreshold(variant, Assembler)
====
